---- MODULE Spec2Model ----
(***************************************************************************)
(* Pyra compiler back end: lowering (ir.rs), the security pass             *)
(* (security.rs) and the assembler (codegen.rs), together with an EVM      *)
(* that executes the assembled bytes.                                      *)
(*                                                                         *)
(* Words are 256-bit, kept as 32 big-endian bytes; arithmetic is done      *)
(* byte-wise so that overflow happens at 2^256 exactly as on the EVM.      *)
(***************************************************************************)
EXTENDS Integers, Sequences, FiniteSets, TLC

VARIABLES
    phase,      \* position in the pipeline
    program,    \* the source-level input (an expression or a program)
    module,     \* IrModule: [functions, constructor_ops, label_count]
    code,       \* assembled bytes under execution
    calldata,   \* bytes of the call
    pc,         \* byte offset of the next instruction
    stack,      \* EVM stack, top first
    storage,    \* slot word -> word (absent = zero)
    memory,     \* offset word -> word (absent = zero)
    status,     \* "idle", "running", "end", "stop", "return", "revert", "invalid"
    executed,   \* history: set of byte offsets whose instruction has run
    stack0,     \* history: the stack the execution started from
    storage0,   \* history: the storage the execution started from
    passes,     \* history: the stages that have run on the module, in order
    guard_slot,  \* the slot given to add_reentrancy_guard (-1: the guard has not run)
    lexer,      \* PyraLexer: the fields of the struct and the tokenizer's offset
    tokens,     \* history: what the calls of next_token have returned, in order
    storage_layout, \* StorageLayout: [slots, next_slot]
    verify_errors,  \* Vec<VerifyError> returned by verify_module
    gas_report,     \* GasReport: [functions, constructor_gas, dispatch_overhead]
    type_errors     \* Vec<TypeError> returned by check_program

\* the report before GasReport::from_module has run
NoReport == [functions |-> <<>>, constructor_gas |-> 0, dispatch_overhead |-> 0]

vars == <<phase, program, module, code, calldata, pc, stack, storage, memory,
          status, executed, stack0, storage0, passes, guard_slot, lexer, tokens,
          storage_layout, verify_errors,
                   gas_report, type_errors>>

----------------------------------------------------------------------------
(* Bounds *)

\* operands are taken within MaxDelta of 0, 2^128 and 2^256
MaxDelta == 1

\* number of words that lie on the stack below the operands
MaxRest == 2

----------------------------------------------------------------------------
(* 256-bit words *)

WordBytes == 32

ZeroWord == [i \in 1..WordBytes |-> 0]

\* the word of a number below 2^24
NatToWord(n) ==
    [i \in 1..WordBytes |->
        IF WordBytes - i >= 3 THEN 0 ELSE (n \div (256 ^ (WordBytes - i))) % 256]

OneWord == NatToWord(1)

MaxWord == [i \in 1..WordBytes |-> 255]

\* 2^bit
Pow2Word(bit) ==
    [i \in 1..WordBytes |->
        IF WordBytes - i = bit \div 8 THEN 2 ^ (bit % 8) ELSE 0]

\* big-endian data of at most 32 bytes, left-padded with zeros (PUSHn)
PadLeft(data) ==
    [i \in 1..WordBytes |->
        IF i <= WordBytes - Len(data) THEN 0 ELSE data[i - (WordBytes - Len(data))]]

\* the numeric value of a word when it is below 2^24, else -1
WordToNat(w) ==
    IF \E i \in 1..(WordBytes - 3) : w[i] # 0
    THEN -1
    ELSE w[WordBytes - 2] * 65536 + w[WordBytes - 1] * 256 + w[WordBytes]

\* byte k of w counted from the least significant end, k = 0..; 0 beyond the word
LB(w, k) == IF k >= 0 /\ k < Len(w) THEN w[Len(w) - k] ELSE 0

RECURSIVE AddFrom(_, _, _, _)
\* st = <<carry, acc>>: bytes k..1 of a + b + carry are prepended to acc, most
\* significant first; the result is <<carry out, bytes>>
AddFrom(a, b, k, st) ==
    IF k = 0 \/ Len(st) # 2 THEN st
    ELSE LET s == a[k] + b[k] + st[1]
         IN  AddFrom(a, b, k - 1, <<s \div 256, <<s % 256>> \o st[2]>>)

\* a + b modulo 2^256
WAdd(a, b) == AddFrom(a, b, WordBytes, <<0, <<>>>>)[2]

\* a + b does not fit in a word
AddOverflows(a, b) == AddFrom(a, b, WordBytes, <<0, <<>>>>)[1] = 1

Compl(b) == [i \in 1..WordBytes |-> 255 - b[i]]

\* a - b modulo 2^256
WSub(a, b) == AddFrom(a, Compl(b), WordBytes, <<1, <<>>>>)[2]

\* a < b, unsigned
WLt(a, b) ==
    \E i \in 1..WordBytes : a[i] < b[i] /\ \A j \in 1..(i - 1) : a[j] = b[j]

RECURSIVE ColSum(_, _, _, _)
\* sum over i = lo..j of LB(a, i) * LB(b, k - i)
ColSum(a, b, k, j) ==
    IF j < 0 \/ k - j >= WordBytes THEN 0
    ELSE LB(a, j) * LB(b, k - j) + ColSum(a, b, k, j - 1)

RECURSIVE MulFrom(_, _, _, _, _)
\* st = <<carry, acc>>: bytes k..n-1 (from the least significant end) of a * b
\* are prepended to acc
MulFrom(a, b, k, n, st) ==
    IF k = n \/ Len(st) # 2 THEN st
    ELSE LET top == IF k < WordBytes THEN k ELSE WordBytes - 1
             s   == ColSum(a, b, k, top) + st[1]
         IN  MulFrom(a, b, k + 1, n, <<s \div 256, <<s % 256>> \o st[2]>>)

\* the full 512-bit product, 64 bytes
MulWide(a, b) == MulFrom(a, b, 0, 2 * WordBytes, <<0, <<>>>>)[2]

\* a * b modulo 2^256
WMul(a, b) == MulFrom(a, b, 0, WordBytes, <<0, <<>>>>)[2]

\* a * b does not fit in a word
MulOverflows(a, b) ==
    LET p == MulWide(a, b) IN \E i \in 1..WordBytes : p[i] # 0

\* 2 * w + bit modulo 2^256
Shl1(w, bit) ==
    SubSeq([i \in 1..WordBytes |->
                ((2 * w[i]) % 256) + (IF i = WordBytes THEN bit ELSE w[i + 1] \div 128)],
           1, WordBytes)

RECURSIVE DivBits(_, _, _, _)
\* restoring division: bring down bits t..0 of byte; st = <<quotient, remainder>>
DivBits(b, byte, t, st) ==
    IF t < 0 \/ Len(st) # 2 THEN st
    ELSE LET r2 == Shl1(st[2], (byte \div (2 ^ t)) % 2)
             ge == st[2][1] >= 128 \/ ~WLt(r2, b)
         IN  DivBits(b, byte, t - 1,
                     <<Shl1(st[1], IF ge THEN 1 ELSE 0),
                       IF ge THEN WSub(r2, b) ELSE r2>>)

RECURSIVE DivBytes(_, _, _, _)
\* bring down bytes k..32 of a, most significant first
DivBytes(a, b, k, st) ==
    IF k > WordBytes \/ Len(st) # 2 THEN st
    ELSE IF a[k] = 0 /\ st = <<ZeroWord, ZeroWord>> THEN DivBytes(a, b, k + 1, st)
    ELSE DivBytes(a, b, k + 1, DivBits(b, a[k], 7, st))

\* EVM DIV: a / b, 0 when b = 0
WDiv(a, b) ==
    IF b = ZeroWord THEN ZeroWord
    ELSE DivBytes(a, b, 1, <<ZeroWord, ZeroWord>>)[1]

\* EVM SHR: value >> shift
WShr(shift, value) ==
    LET s == WordToNat(shift)
    IN  IF s < 0 \/ s >= 8 * WordBytes THEN ZeroWord
        ELSE LET k == s \div 8
                 r == s % 8
             IN  [i \in 1..WordBytes |->
                    LET j == WordBytes - i
                    IN  ((LB(value, j + k) \div (2 ^ r))
                         + (LB(value, j + k + 1) % (2 ^ r)) * (2 ^ (8 - r))) % 256]

BoolWord(c) == IF c THEN OneWord ELSE ZeroWord

----------------------------------------------------------------------------
(* IrOp (ir.rs) *)

\* an op without operand: Add, Pop, SLoad, Return, ...
Op(name) == [op |-> name, n |-> 0, data |-> <<>>]

Push(bytes) == [op |-> "Push", n |-> 0, data |-> bytes]

Dup(k) == [op |-> "Dup", n |-> k, data |-> <<>>]

Swap(k) == [op |-> "Swap", n |-> k, data |-> <<>>]

Jump(label) == [op |-> "Jump", n |-> label, data |-> <<>>]

JumpI(label) == [op |-> "JumpI", n |-> label, data |-> <<>>]

JumpDest(label) == [op |-> "JumpDest", n |-> label, data |-> <<>>]

Log(k) == [op |-> "Log", n |-> k, data |-> <<>>]

----------------------------------------------------------------------------
(* Security pass (security.rs) *)

emit_checked_add(out, label_count) ==
    LET ok_label == label_count
    IN  [out |-> out \o
            << Dup(2), Dup(2), Op("Add"), Dup(1), Dup(3), Op("Lt"), Op("IsZero"),
               JumpI(ok_label), Push(<<0>>), Push(<<0>>), Op("Revert"),
               JumpDest(ok_label), Swap(2), Op("Pop"), Swap(1), Op("Pop") >>,
         label_count |-> label_count + 1]

\* emit_checked_sub with the comparison's result not negated
emit_checked_sub_no_iszero(out, label_count) ==
    LET ok_label == label_count
    IN  [out |-> out \o
            << Dup(2), Dup(2), Op("Lt"),
               JumpI(ok_label), Push(<<0>>), Push(<<0>>), Op("Revert"),
               JumpDest(ok_label), Op("Sub") >>,
         label_count |-> label_count + 1]

emit_checked_sub(out, label_count) ==
    LET ok_label == label_count
    IN  [out |-> out \o
            << Dup(2), Dup(2), Op("Lt"), Op("IsZero"),
               JumpI(ok_label), Push(<<0>>), Push(<<0>>), Op("Revert"),
               JumpDest(ok_label), Op("Sub") >>,
         label_count |-> label_count + 1]

emit_checked_mul(out, label_count) ==
    LET ok_label   == label_count
        zero_label == label_count + 1
    IN  [out |-> out \o
            << Dup(2), Op("IsZero"), JumpI(zero_label),
               Dup(2), Dup(2), Op("Mul"), Dup(1), Dup(3), Op("Div"), Dup(4), Op("Eq"),
               JumpI(ok_label), Push(<<0>>), Push(<<0>>), Op("Revert"),
               JumpDest(zero_label), Op("Pop"), Op("Pop"), Push(<<0>>), Jump(ok_label),
               JumpDest(ok_label), Swap(2), Op("Pop"), Swap(1), Op("Pop") >>,
         label_count |-> label_count + 2]

RECURSIVE harden_from(_, _, _)
\* the loop of harden_ops from op i on; st = [out, label_count]
harden_from(ops, i, st) ==
    IF i > Len(ops) \/ st.label_count < 0 THEN st
    ELSE harden_from(ops, i + 1,
            CASE ops[i].op = "Add" -> emit_checked_add(st.out, st.label_count)
              [] ops[i].op = "Sub" -> emit_checked_sub(st.out, st.label_count)
              [] ops[i].op = "Mul" -> emit_checked_mul(st.out, st.label_count)
              [] OTHER -> [st EXCEPT !.out = Append(st.out, ops[i])])

\* returns [out, label_count]: the new op list and the advanced label counter
harden_ops(ops, label_count) ==
    harden_from(ops, 1, [out |-> <<>>, label_count |-> label_count])

RECURSIVE harden_functions(_, _, _)
\* the loop of harden over module.functions; st = [functions, label_count]
harden_functions(funcs, i, st) ==
    IF i > Len(funcs) \/ st.label_count < 0 THEN st
    ELSE LET h == harden_ops(funcs[i].ops, st.label_count)
         IN  harden_functions(funcs, i + 1,
                [functions   |-> Append(st.functions, [funcs[i] EXCEPT !.ops = h.out]),
                 label_count |-> h.label_count])

harden(m) ==
    LET fs == harden_functions(m.functions, 1,
                               [functions |-> <<>>, label_count |-> m.label_count])
        c  == harden_ops(m.constructor_ops, fs.label_count)
    IN  [functions       |-> fs.functions,
         constructor_ops |-> c.out,
         label_count     |-> c.label_count]

----------------------------------------------------------------------------
(* Assembler (codegen.rs) *)

\* Emitter::new
NewEmitter == [code |-> <<>>, labels |-> <<>>, patches |-> <<>>]

\* Emitter::byte
byte(em, b) == [em EXCEPT !.code = Append(@, b)]

\* Emitter::push_data
push_data(em, data) == [em EXCEPT !.code = (@ \o <<(95 + Len(data)) % 256>>) \o data]

\* Emitter::label_ref
label_ref(em, label) ==
    [em EXCEPT !.code    = @ \o <<97, 0, 0>>,
               !.patches = Append(@, <<Len(em.code) + 1, label>>)]

\* Emitter::mark_label; labels is the HashMap, kept as a list of <<label, offset>>
\* in which the latest entry for a label is the one in force
mark_label(em, label) ==
    [em EXCEPT !.labels = <<<<label, Len(em.code)>>>> \o @,
               !.code   = Append(@, 91)]

\* HashMap::get on Emitter::labels: -1 when absent
label_offset(labels, label) ==
    IF \E i \in 1..Len(labels) : labels[i][1] = label
    THEN labels[CHOOSE i \in 1..Len(labels) :
                    /\ labels[i][1] = label
                    /\ \A j \in 1..(i - 1) : labels[j][1] # label][2]
    ELSE -1

\* the single-byte opcodes of Emitter::emit_op
OpByte(name) ==
    CASE name = "Pop" -> 80       [] name = "Add" -> 1        [] name = "Mul" -> 2
      [] name = "Sub" -> 3        [] name = "Div" -> 4        [] name = "SDiv" -> 5
      [] name = "Mod" -> 6        [] name = "Exp" -> 10       [] name = "Lt" -> 16
      [] name = "Gt" -> 17        [] name = "Eq" -> 20        [] name = "IsZero" -> 21
      [] name = "And" -> 22       [] name = "Or" -> 23        [] name = "Not" -> 25
      [] name = "Shr" -> 28       [] name = "MLoad" -> 81     [] name = "MStore" -> 82
      [] name = "SLoad" -> 84     [] name = "SStore" -> 85    [] name = "Caller" -> 51
      [] name = "CallValue" -> 52 [] name = "CallDataLoad" -> 53
      [] name = "CallDataSize" -> 54                          [] name = "Keccak256" -> 32
      [] name = "Return" -> 243   [] name = "Revert" -> 253   [] name = "Stop" -> 0
      [] name = "Invalid" -> 254

\* Emitter::emit_op
emit_op(em, op) ==
    CASE op.op = "Push"     -> push_data(em, op.data)
      [] op.op = "Dup"      -> byte(em, (127 + op.n) % 256)
      [] op.op = "Swap"     -> byte(em, (143 + op.n) % 256)
      [] op.op = "Jump"     -> byte(label_ref(em, op.n), 86)
      [] op.op = "JumpI"    -> byte(label_ref(em, op.n), 87)
      [] op.op = "JumpDest" -> mark_label(em, op.n)
      [] op.op = "Log"      -> byte(em, (160 + op.n) % 256)
      [] OTHER              -> byte(em, OpByte(op.op))

\* Emitter::resolve: patch every reference whose label is defined with the
\* 2-byte big-endian offset (as u16)
resolve(em) ==
    LET patched(i) == { j \in 1..Len(em.patches) :
                          /\ em.patches[j][1] \in {i - 1, i - 2}
                          /\ label_offset(em.labels, em.patches[j][2]) >= 0 }
    IN  [em EXCEPT !.code =
            [i \in 1..Len(em.code) |->
                IF patched(i) = {} THEN em.code[i]
                ELSE LET j   == CHOOSE j \in patched(i) : TRUE
                         off == label_offset(em.labels, em.patches[j][2]) % 65536
                     IN  IF em.patches[j][1] = i - 1 THEN off \div 256 ELSE off % 256]]

\* Emitter::into_bytes
into_bytes(em) == resolve(em).code

RECURSIVE emit_ops(_, _, _)
\* emit_op over ops[i..]
emit_ops(em, ops, i) ==
    IF i > Len(ops) \/ Len(em.code) < 0 THEN em
    ELSE emit_ops(emit_op(em, ops[i]), ops, i + 1)

----------------------------------------------------------------------------
(* The EVM that runs the bytes emitted by Emitter::emit_op.  A machine is    *)
(* [code, calldata, pc, stack, storage, memory, status]; the stack has its   *)
(* top at index 1.                                                           *)

\* length in bytes of the instruction whose opcode is opc
InstrLen(opc) == IF opc >= 96 /\ opc <= 127 THEN opc - 94 ELSE 1

RECURSIVE JumpDestsFrom(_, _, _)
\* the offsets of the JUMPDEST bytes that are instructions (not push data)
JumpDestsFrom(bytes, p, acc) ==
    IF p >= Len(bytes) \/ Cardinality(acc) < 0 THEN acc
    ELSE JumpDestsFrom(bytes, p + InstrLen(bytes[p + 1]),
                       IF bytes[p + 1] = 91 THEN acc \cup {p} ELSE acc)

JumpDests(bytes) == JumpDestsFrom(bytes, 0, {})

\* a map kept as a function on the keys written so far; absent keys read zero
Load(map, key) == IF key \in DOMAIN map THEN map[key] ELSE ZeroWord

Store(map, key, value) ==
    [k \in DOMAIN map \cup {key} |-> IF k = key THEN value ELSE map[k]]

EmptyMap == [k \in {} |-> ZeroWord]

\* the 32 bytes of data at offset off, zero beyond the end
DataWord(data, off) ==
    [i \in 1..WordBytes |->
        IF off >= 0 /\ off + i <= Len(data) THEN data[off + i] ELSE 0]

\* the operand of the PUSHn at offset p: the n bytes that follow the opcode
PushWord(bytes, p, n) ==
    [i \in 1..WordBytes |->
        IF i <= WordBytes - n THEN 0
        ELSE LET idx == p + 1 + (i - (WordBytes - n))
             IN  IF idx <= Len(bytes) THEN bytes[idx] ELSE 0]

\* KECCAK256 of the two words at off and off + 32 (the key and the slot of a
\* mapping element): a word above every slot number that keeps the low byte
\* of each, so that it is one-to-one on keys and slots below 256
Keccak(mem, off) ==
    [i \in 1..WordBytes |->
        IF i = 1 THEN 204
        ELSE IF i = WordBytes - 1 THEN Load(mem, off)[WordBytes]
        ELSE IF i = WordBytes THEN Load(mem, WAdd(off, NatToWord(32)))[WordBytes]
        ELSE 0]

\* the account that makes the call
CallerWord == NatToWord(51966)

Halt(m, how) == [m EXCEPT !.status = how]

Drop(stk, k) == SubSeq(stk, k + 1, Len(stk))

\* an instruction that pops k words and pushes w
Compute(m, k, w) ==
    IF Len(m.stack) < k THEN Halt(m, "invalid")
    ELSE [m EXCEPT !.stack = <<w>> \o Drop(m.stack, k), !.pc = m.pc + 1]

JumpTo(m, k, dest) ==
    IF WordToNat(dest) \in JumpDests(m.code)
    THEN [m EXCEPT !.stack = Drop(m.stack, k), !.pc = WordToNat(dest)]
    ELSE Halt(m, "invalid")

\* one instruction of a running machine
Exec(m) ==
    IF m.pc >= Len(m.code) THEN Halt(m, "end")
    ELSE
    LET opc == m.code[m.pc + 1]
        st  == m.stack
        x   == st[1]
        y   == st[2]
        has(k) == Len(st) >= k
    IN  CASE opc = 0   -> Halt(m, "stop")
          [] opc = 1   -> Compute(m, 2, IF has(2) THEN WAdd(x, y) ELSE ZeroWord)
          [] opc = 2   -> Compute(m, 2, IF has(2) THEN WMul(x, y) ELSE ZeroWord)
          [] opc = 3   -> Compute(m, 2, IF has(2) THEN WSub(x, y) ELSE ZeroWord)
          [] opc = 4   -> Compute(m, 2, IF has(2) THEN WDiv(x, y) ELSE ZeroWord)
          [] opc = 16  -> Compute(m, 2, IF has(2) THEN BoolWord(WLt(x, y)) ELSE ZeroWord)
          [] opc = 17  -> Compute(m, 2, IF has(2) THEN BoolWord(WLt(y, x)) ELSE ZeroWord)
          [] opc = 20  -> Compute(m, 2, IF has(2) THEN BoolWord(x = y) ELSE ZeroWord)
          [] opc = 21  -> Compute(m, 1, IF has(1) THEN BoolWord(x = ZeroWord) ELSE ZeroWord)
          [] opc = 28  -> Compute(m, 2, IF has(2) THEN WShr(x, y) ELSE ZeroWord)
          [] opc = 32  -> Compute(m, 2, IF has(2) THEN Keccak(m.memory, x) ELSE ZeroWord)
          [] opc = 51  -> Compute(m, 0, CallerWord)
          [] opc = 52  -> Compute(m, 0, ZeroWord)
          [] opc = 53  -> Compute(m, 1, IF has(1) THEN DataWord(m.calldata, WordToNat(x))
                                        ELSE ZeroWord)
          [] opc = 54  -> Compute(m, 0, NatToWord(Len(m.calldata)))
          [] opc = 80  -> IF has(1) THEN [m EXCEPT !.stack = Drop(st, 1), !.pc = m.pc + 1]
                          ELSE Halt(m, "invalid")
          [] opc = 81  -> Compute(m, 1, IF has(1) THEN Load(m.memory, x) ELSE ZeroWord)
          [] opc = 82  -> IF has(2)
                          THEN [m EXCEPT !.memory = Store(m.memory, x, y),
                                         !.stack = Drop(st, 2), !.pc = m.pc + 1]
                          ELSE Halt(m, "invalid")
          [] opc = 84  -> Compute(m, 1, IF has(1) THEN Load(m.storage, x) ELSE ZeroWord)
          [] opc = 85  -> IF has(2)
                          THEN [m EXCEPT !.storage = Store(m.storage, x, y),
                                         !.stack = Drop(st, 2), !.pc = m.pc + 1]
                          ELSE Halt(m, "invalid")
          [] opc = 86  -> IF has(1) THEN JumpTo(m, 1, x) ELSE Halt(m, "invalid")
          [] opc = 87  -> IF ~has(2) THEN Halt(m, "invalid")
                          ELSE IF y # ZeroWord THEN JumpTo(m, 2, x)
                          ELSE [m EXCEPT !.stack = Drop(st, 2), !.pc = m.pc + 1]
          [] opc = 91  -> [m EXCEPT !.pc = m.pc + 1]
          [] opc >= 96 /\ opc <= 127 ->
                LET n == opc - 95
                IN  [m EXCEPT !.stack = <<PushWord(m.code, m.pc, n)>> \o st,
                              !.pc = m.pc + 1 + n]
          [] opc >= 128 /\ opc <= 143 ->
                LET n == opc - 127
                IN  IF has(n) THEN [m EXCEPT !.stack = <<st[n]>> \o st, !.pc = m.pc + 1]
                    ELSE Halt(m, "invalid")
          [] opc >= 144 /\ opc <= 159 ->
                LET n == opc - 143
                IN  IF has(n + 1)
                    THEN [m EXCEPT !.stack = [st EXCEPT ![1] = st[n + 1], ![n + 1] = st[1]],
                                   !.pc = m.pc + 1]
                    ELSE Halt(m, "invalid")
          [] opc = 243 -> IF has(2) THEN Halt(m, "return") ELSE Halt(m, "invalid")
          [] opc = 253 -> IF has(2) THEN Halt(m, "revert") ELSE Halt(m, "invalid")
          [] opc = 254 -> Halt(m, "invalid")
          [] OTHER     -> Halt(m, "unmodelled")

----------------------------------------------------------------------------
(* AST (ast.rs).  Expressions, statements and items are tuples whose first   *)
(* element is the variant:                                                   *)
(*   <<"Number", n>>  <<"HexNumber", n>>   n: BigUint as big-endian bytes    *)
(*   <<"Bool", b>>  <<"String", s>>  <<"Bytes", bytes>>  <<"Identifier", x>> *)
(*   <<"Member", base, field>>  <<"Index", base, key>>                       *)
(*   <<"Binary", op, left, right>>  <<"Unary", op, operand>>                 *)
(*   <<"Call", callee, args>>  <<"StructInit", name, fields>>                *)
(*   <<"Return", e>>  <<"ReturnNone">>  <<"Require", e>>                     *)
(*   <<"Let", name, e>>  <<"LetNone", name>>  <<"Assign", target, value>>    *)
(*   <<"If", cond, then>>  <<"IfElse", cond, then, else>>                    *)
(*   <<"For", var, iterable, body>>  <<"While", cond, body>>                 *)
(*   <<"Emit", name, args>>  <<"Expression", e>>                             *)
(*   <<"Function", name, params, body>>  params: <<name, type>>              *)
(*   <<"Const", name, type, value>>  <<"Struct", name, fields>>              *)
(* A type is <<"Uint256">>, <<"Map", k, v>>, ...                             *)

----------------------------------------------------------------------------
(* Storage layout (storage.rs).  A layout is [slots, next_slot]; slots is    *)
(* the HashMap, kept as the list of its entries [name, slot, kind].          *)

EmptyLayout == [slots |-> <<>>, next_slot |-> 0]

contains_key(layout, name) == \E i \in 1..Len(layout.slots) : layout.slots[i].name = name

\* StorageLayout::get; only used where contains_key holds
get(layout, name) ==
    layout.slots[CHOOSE i \in 1..Len(layout.slots) : layout.slots[i].name = name]

alloc_without_lookup(layout, name, kind) ==
    LET entry == [name |-> name, slot |-> layout.next_slot, kind |-> kind]
    IN  [slots     |-> IF contains_key(layout, name)
                       THEN [i \in 1..Len(layout.slots) |->
                                IF layout.slots[i].name = name THEN entry
                                ELSE layout.slots[i]]
                       ELSE Append(layout.slots, entry),
         next_slot |-> layout.next_slot + 1]

\* StorageLayout::alloc
alloc(layout, name, kind) ==
    IF contains_key(layout, name) THEN layout
    ELSE [slots     |-> Append(layout.slots,
                               [name |-> name, slot |-> layout.next_slot, kind |-> kind]),
          next_slot |-> layout.next_slot + 1]

\* StorageLayout::slot_count
slot_count(layout) == layout.next_slot

is_builtin(name) == name \in {"msg", "block", "tx", "self"}

kind_of_type(ty) == IF ty[1] = "Map" THEN "Mapping" ELSE "Value"

contains(locals, name) == \E i \in 1..Len(locals) : locals[i] = name

discover_index_base_as_value(base, locals, layout) ==
    IF base[1] = "Identifier" /\ ~contains(locals, base[2]) /\ ~is_builtin(base[2])
    THEN alloc(layout, base[2], "Value") ELSE layout

\* the Index arm of discover_target and of discover_expr_mappings: the base
\* of base[key]
discover_index_base(base, locals, layout) ==
    IF base[1] = "Identifier" /\ ~contains(locals, base[2]) /\ ~is_builtin(base[2])
    THEN alloc(layout, base[2], "Mapping") ELSE layout

RECURSIVE discover_target(_, _, _)
discover_target(expr, locals, layout) ==
    CASE expr[1] = "Identifier" ->
            IF ~contains(locals, expr[2]) /\ ~is_builtin(expr[2])
            THEN alloc(layout, expr[2], "Value") ELSE layout
      [] expr[1] = "Index" -> discover_index_base(expr[2], locals, layout)
      [] expr[1] = "Member" -> discover_target(expr[2], locals, layout)
      [] OTHER -> layout

RECURSIVE discover_expr_mappings(_, _, _)
RECURSIVE discover_exprs(_, _, _, _)
\* discover_expr_mappings over exprs[i..]
discover_exprs(exprs, i, locals, layout) ==
    IF i > Len(exprs) \/ layout.next_slot < 0 THEN layout
    ELSE discover_exprs(exprs, i + 1, locals,
                        discover_expr_mappings(exprs[i], locals, layout))

discover_expr_mappings(expr, locals, layout) ==
    CASE expr[1] = "Index" ->
            discover_expr_mappings(expr[3], locals,
                discover_index_base(expr[2], locals, layout))
      [] expr[1] = "Binary" ->
            discover_expr_mappings(expr[4], locals,
                discover_expr_mappings(expr[3], locals, layout))
      [] expr[1] = "Unary" -> discover_expr_mappings(expr[3], locals, layout)
      [] expr[1] = "Call" ->
            discover_exprs(expr[3], 1, locals,
                discover_expr_mappings(expr[2], locals, layout))
      [] expr[1] = "Member" -> discover_expr_mappings(expr[2], locals, layout)
      [] OTHER -> layout

RECURSIVE discover_state(_, _, _)
RECURSIVE discover_stmt(_, _)
\* the loop of discover_state from statement i on; st = [locals, layout]
discover_state(stmts, i, st) ==
    IF i > Len(stmts) \/ st.layout.next_slot < 0 THEN st
    ELSE discover_state(stmts, i + 1, discover_stmt(stmts[i], st))

\* a block nested in a statement, walked with a list of locals of its own
discover_block_scoped(body, st) ==
    [st EXCEPT !.layout = discover_state(body, 1, st).layout]

\* the recursive call of discover_state on the block of an if, an else or a
\* while: the block is walked with the locals of the enclosing block and what
\* it pushes stays pushed
discover_block(body, st) == discover_state(body, 1, st)

\* one arm of the match in discover_state
discover_stmt(stmt, st) ==
    CASE stmt[1] = "Let" ->
            [locals |-> Append(st.locals, stmt[2]),
             layout |-> discover_expr_mappings(stmt[3], st.locals, st.layout)]
      [] stmt[1] = "LetNone" -> [st EXCEPT !.locals = Append(@, stmt[2])]
      [] stmt[1] = "Assign" ->
            [st EXCEPT !.layout =
                discover_expr_mappings(stmt[3], st.locals,
                    discover_target(stmt[2], st.locals, st.layout))]
      [] stmt[1] \in {"Return", "Require", "Expression"} ->
            [st EXCEPT !.layout = discover_expr_mappings(stmt[2], st.locals, st.layout)]
      [] stmt[1] = "Emit" ->
            [st EXCEPT !.layout = discover_exprs(stmt[3], 1, st.locals, st.layout)]
      [] stmt[1] = "If" ->
            discover_block(stmt[3],
                [st EXCEPT !.layout = discover_expr_mappings(stmt[2], st.locals, st.layout)])
      [] stmt[1] = "IfElse" ->
            discover_block(stmt[4],
                discover_block(stmt[3],
                    [st EXCEPT !.layout =
                        discover_expr_mappings(stmt[2], st.locals, st.layout)]))
      [] stmt[1] = "For" ->
            LET l1    == discover_expr_mappings(stmt[3], st.locals, st.layout)
                inner == discover_state(stmt[4], 1,
                            [locals |-> Append(st.locals, stmt[2]), layout |-> l1])
            IN  [st EXCEPT !.layout = inner.layout]
      [] stmt[1] = "While" ->
            discover_block(stmt[3],
                [st EXCEPT !.layout = discover_expr_mappings(stmt[2], st.locals, st.layout)])
      [] OTHER -> st

RECURSIVE alloc_consts(_, _, _)
\* first loop of from_program: Const items in source order
alloc_consts(items, i, layout) ==
    IF i > Len(items) \/ layout.next_slot < 0 THEN layout
    ELSE alloc_consts(items, i + 1,
            IF items[i][1] = "Const"
            THEN alloc(layout, items[i][2], kind_of_type(items[i][3]))
            ELSE layout)

RECURSIVE alloc_fields(_, _, _)
alloc_fields(fields, i, layout) ==
    IF i > Len(fields) \/ layout.next_slot < 0 THEN layout
    ELSE alloc_fields(fields, i + 1,
                      alloc(layout, fields[i][1], kind_of_type(fields[i][2])))

RECURSIVE alloc_structs(_, _, _)
\* second loop of from_program: the fields of Struct items
alloc_structs(items, i, layout) ==
    IF i > Len(items) \/ layout.next_slot < 0 THEN layout
    ELSE alloc_structs(items, i + 1,
            IF items[i][1] = "Struct" THEN alloc_fields(items[i][3], 1, layout)
            ELSE layout)

param_names(params) == [i \in 1..Len(params) |-> params[i][1]]

RECURSIVE discover_functions(_, _, _)
\* third loop of from_program: state discovered in function bodies
discover_functions(items, i, layout) ==
    IF i > Len(items) \/ layout.next_slot < 0 THEN layout
    ELSE discover_functions(items, i + 1,
            IF items[i][1] = "Function"
            THEN discover_state(items[i][4], 1,
                    [locals |-> param_names(items[i][3]), layout |-> layout]).layout
            ELSE layout)

from_program_functions_first(items) ==
    alloc_structs(items, 1, alloc_consts(items, 1, discover_functions(items, 1, EmptyLayout)))

\* StorageLayout::from_program
from_program(items) ==
    discover_functions(items, 1, alloc_structs(items, 1, alloc_consts(items, 1, EmptyLayout)))

----------------------------------------------------------------------------
(* Lowering (ir.rs).  A context is [layout, params, locals, next_mem,        *)
(* label_count]; params and locals are the HashMaps name -> offset.          *)

EmptyOffsets == [x \in {} |-> 0]

\* HashMap::insert
Insert(map, name, off) ==
    [x \in DOMAIN map \cup {name} |-> IF x = name THEN off ELSE map[x]]

\* u64_to_bytes / usize_to_bytes / slot_to_bytes: big-endian without leading
\* zeros, [0] for zero (numbers below 2^24)
u64_to_bytes(n) ==
    IF n = 0 THEN <<0>>
    ELSE IF n < 256 THEN <<n>>
    ELSE IF n < 65536 THEN <<n \div 256, n % 256>>
    ELSE <<n \div 65536, (n \div 256) % 256, n % 256>>

\* BigUint::to_bytes_be followed by the zero case of biguint_to_push_bytes;
\* a BigUint is its big-endian bytes without leading zeros (zero is <<>>)
biguint_to_push_bytes(n) ==
    IF n = <<>> \/ n = <<0>> THEN <<0>> ELSE n

\* LowerCtx::new
NewCtx(layout) ==
    [layout |-> layout, params |-> EmptyOffsets, locals |-> EmptyOffsets,
     next_mem |-> 128, label_count |-> 0]

\* LowerCtx::reset_for_function
reset_for_function(ctx) ==
    [ctx EXCEPT !.params = EmptyOffsets, !.locals = EmptyOffsets, !.next_mem = 128]

\* LowerCtx::alloc_local
alloc_local(ctx, name) ==
    [ctx EXCEPT !.locals = Insert(@, name, ctx.next_mem), !.next_mem = @ + 32]

\* the ops pushed after both operands of a Binary expression
binary_ops(op) ==
    CASE op = "Add"          -> <<Op("Add")>>
      [] op = "Sub"          -> <<Swap(1), Op("Sub")>>
      [] op = "Mul"          -> <<Op("Mul")>>
      [] op = "Div"          -> <<Swap(1), Op("Div")>>
      [] op = "Mod"          -> <<Swap(1), Op("Mod")>>
      [] op = "Pow"          -> <<Swap(1), Op("Exp")>>
      [] op = "Equal"        -> <<Op("Eq")>>
      [] op = "NotEqual"     -> <<Op("Eq"), Op("IsZero")>>
      [] op = "Less"         -> <<Swap(1), Op("Lt")>>
      [] op = "Greater"      -> <<Swap(1), Op("Gt")>>
      [] op = "LessEqual"    -> <<Swap(1), Op("Gt"), Op("IsZero")>>
      [] op = "GreaterEqual" -> <<Swap(1), Op("Lt"), Op("IsZero")>>
      [] op = "And"          -> <<Op("And")>>
      [] op = "Or"           -> <<Op("Or")>>

RECURSIVE lower_expression_into(_, _, _)
RECURSIVE lower_args(_, _, _, _)
\* the loop over the arguments of a Call
lower_args(ctx, args, i, ops) ==
    IF i > Len(args) \/ Len(ops) < 0 THEN ops
    ELSE lower_args(ctx, args, i + 1, lower_expression_into(ctx, args[i], ops))

\* lower_mapping_key
lower_mapping_key(ctx, key, slot, ops) ==
    lower_expression_into(ctx, key, ops) \o
        << Push(<<0>>), Op("MStore"), Push(u64_to_bytes(slot)), Push(<<32>>),
           Op("MStore"), Push(<<64>>), Push(<<0>>), Op("Keccak256") >>

lower_expression_into(ctx, expr, ops) ==
    CASE expr[1] \in {"Number", "HexNumber"} ->
            Append(ops, Push(biguint_to_push_bytes(expr[2])))
      [] expr[1] = "Bool" -> Append(ops, Push(<<IF expr[2] THEN 1 ELSE 0>>))
      [] expr[1] = "String" -> Append(ops, Push(<<0>>))
      [] expr[1] = "Bytes" ->
            IF expr[2] = <<>> THEN Append(ops, Push(<<0>>)) ELSE Append(ops, Push(expr[2]))
      [] expr[1] = "Identifier" ->
            IF expr[2] \in DOMAIN ctx.params
            THEN ops \o <<Push(u64_to_bytes(ctx.params[expr[2]])), Op("CallDataLoad")>>
            ELSE IF expr[2] \in DOMAIN ctx.locals
            THEN ops \o <<Push(u64_to_bytes(ctx.locals[expr[2]])), Op("MLoad")>>
            ELSE IF contains_key(ctx.layout, expr[2])
                    /\ get(ctx.layout, expr[2]).kind = "Value"
            THEN ops \o <<Push(u64_to_bytes(get(ctx.layout, expr[2]).slot)), Op("SLoad")>>
            ELSE ops
      [] expr[1] = "Member" ->
            IF expr[2][1] = "Identifier" /\ expr[2][2] = "msg" /\ expr[3] = "sender"
            THEN Append(ops, Op("Caller"))
            ELSE IF expr[2][1] = "Identifier" /\ expr[2][2] = "msg" /\ expr[3] = "value"
            THEN Append(ops, Op("CallValue"))
            ELSE Append(ops, Push(<<0>>))
      [] expr[1] = "Index" ->
            IF expr[2][1] = "Identifier" /\ contains_key(ctx.layout, expr[2][2])
            THEN Append(lower_mapping_key(ctx, expr[3],
                                          get(ctx.layout, expr[2][2]).slot, ops),
                        Op("SLoad"))
            ELSE ops
      [] expr[1] = "Binary" ->
            lower_expression_into(ctx, expr[4],
                lower_expression_into(ctx, expr[3], ops)) \o binary_ops(expr[2])
      [] expr[1] = "Unary" ->
            lower_expression_into(ctx, expr[3], ops) \o
                (IF expr[2] = "Not" THEN <<Op("IsZero")>> ELSE <<Push(<<0>>), Op("Sub")>>)
      [] expr[1] = "Call" ->
            lower_args(ctx, expr[3], 1, lower_expression_into(ctx, expr[2], ops))
      [] expr[1] = "StructInit" -> Append(ops, Push(<<0>>))

\* lower_expression
lower_expression(ctx, expr) == lower_expression_into(ctx, expr, <<>>)

\* lower_assign; returns the op list
lower_assign(ctx, target, value, ops) ==
    CASE target[1] = "Identifier" ->
            LET v == lower_expression_into(ctx, value, ops)
            IN  IF target[2] \in DOMAIN ctx.locals
                THEN v \o <<Push(u64_to_bytes(ctx.locals[target[2]])), Op("MStore")>>
                ELSE IF contains_key(ctx.layout, target[2])
                THEN v \o <<Push(u64_to_bytes(get(ctx.layout, target[2]).slot)),
                            Op("SStore")>>
                ELSE v
      [] target[1] = "Index" ->
            IF target[2][1] = "Identifier" /\ contains_key(ctx.layout, target[2][2])
            THEN Append(lower_mapping_key(ctx, target[3],
                            get(ctx.layout, target[2][2]).slot,
                            lower_expression_into(ctx, value, ops)),
                        Op("SStore"))
            ELSE ops
      [] OTHER -> ops

\* lower_emit; returns the op list
lower_emit(ctx, args, ops) ==
    (IF Len(args) > 0
     THEN lower_expression_into(ctx, args[1], ops) \o <<Push(<<0>>), Op("MStore")>>
     ELSE ops)
    \o <<Push(<<IF Len(args) = 0 THEN 0 ELSE 32>>), Push(<<0>>), Log(0)>>

fresh_label_not_advancing(ctx) == ctx

\* LowerCtx::fresh_label: the label is ctx.label_count, the context advances
fresh_label(ctx) == [ctx EXCEPT !.label_count = @ + 1]

RECURSIVE lower_block(_, _, _)
RECURSIVE lower_statement(_, _)
\* the loop of lower_block from statement i on; st = [ctx, ops]
lower_block(stmts, i, st) ==
    IF i > Len(stmts) \/ st.ctx.label_count < 0 THEN st
    ELSE lower_block(stmts, i + 1, lower_statement(stmts[i], st))

\* lower_if; els is the else branch's statements (empty when there is none)
lower_if(cond, then, els, st) ==
    LET else_label == st.ctx.label_count
        end_label  == st.ctx.label_count + 1
        c0 == fresh_label(fresh_label(st.ctx))
        s1 == [ctx |-> c0,
               ops |-> lower_expression_into(c0, cond, st.ops)
                       \o <<Op("IsZero"), JumpI(else_label)>>]
        s2 == lower_block(then, 1, s1)
        s3 == [s2 EXCEPT !.ops = @ \o <<Jump(end_label), JumpDest(else_label)>>]
        s4 == lower_block(els, 1, s3)
    IN  [s4 EXCEPT !.ops = Append(@, JumpDest(end_label))]

\* lower_while
lower_while(cond, body, st) ==
    LET loop_label == st.ctx.label_count
        end_label  == st.ctx.label_count + 1
        c0 == fresh_label(fresh_label(st.ctx))
        s1 == [ctx |-> c0,
               ops |-> lower_expression_into(c0, cond, Append(st.ops, JumpDest(loop_label)))
                       \o <<Op("IsZero"), JumpI(end_label)>>]
        s2 == lower_block(body, 1, s1)
    IN  [s2 EXCEPT !.ops = @ \o <<Jump(loop_label), JumpDest(end_label)>>]

lower_statement(stmt, st) ==
    CASE stmt[1] = "Return" ->
            [st EXCEPT !.ops = lower_expression_into(st.ctx, stmt[2], st.ops) \o
                << Push(<<64>>), Op("MStore"), Push(<<32>>), Push(<<64>>), Op("Return") >>]
      [] stmt[1] = "ReturnNone" -> [st EXCEPT !.ops = Append(@, Op("Stop"))]
      [] stmt[1] = "Require" ->
            LET continue_label == st.ctx.label_count
                c0 == fresh_label(st.ctx)
            IN  [ctx |-> c0,
                 ops |-> lower_expression_into(c0, stmt[2], st.ops) \o
                    << JumpI(continue_label), Push(<<0>>), Push(<<0>>), Op("Revert"),
                       JumpDest(continue_label) >>]
      [] stmt[1] = "Let" ->
            LET off == st.ctx.next_mem
                c0  == alloc_local(st.ctx, stmt[2])
            IN  [ctx |-> c0,
                 ops |-> lower_expression_into(c0, stmt[3], st.ops) \o
                    <<Push(u64_to_bytes(off)), Op("MStore")>>]
      [] stmt[1] = "LetNone" -> [st EXCEPT !.ctx = alloc_local(st.ctx, stmt[2])]
      [] stmt[1] = "Assign" ->
            [st EXCEPT !.ops = lower_assign(st.ctx, stmt[2], stmt[3], st.ops)]
      [] stmt[1] = "If" -> lower_if(stmt[2], stmt[3], <<>>, st)
      [] stmt[1] = "IfElse" -> lower_if(stmt[2], stmt[3], stmt[4], st)
      [] stmt[1] = "For" -> [st EXCEPT !.ops = Append(@, Op("Stop"))]
      [] stmt[1] = "While" -> lower_while(stmt[2], stmt[3], st)
      [] stmt[1] = "Emit" -> [st EXCEPT !.ops = lower_emit(st.ctx, stmt[3], st.ops)]
      [] stmt[1] = "Expression" ->
            [st EXCEPT !.ops = Append(lower_expression_into(st.ctx, stmt[2], st.ops),
                                      Op("Pop"))]

\* the identifiers a program of the model may use
Names == <<"t", "u", "init", "x", "y", "m", "a", "msg">>

NameIndex(name) == CHOOSE i \in 1..Len(Names) : Names[i] = name

\* type_to_abi_string
type_to_abi_string(ty) ==
    CASE ty[1] = "Uint8"   -> "uint8"
      [] ty[1] = "Uint256" -> "uint256"
      [] ty[1] = "Int256"  -> "int256"
      [] ty[1] = "Bool"    -> "bool"
      [] ty[1] = "Address" -> "address"
      [] ty[1] = "Bytes"   -> "bytes"
      [] ty[1] = "String"  -> "string"
      [] OTHER             -> "bytes"

AbiTypes == <<"uint8", "uint256", "int256", "bool", "address", "bytes", "string">>

AbiIndex(str) == CHOOSE i \in 1..Len(AbiTypes) : AbiTypes[i] = str

\* compute_selector: the first four bytes of Keccak-256 of name(type,...).  The
\* hash is not computed: it is stood for by four bytes that are a function of
\* the signature and differ for the signatures the model uses
compute_selector(name, params) ==
    << 160 + NameIndex(name),
       Len(params),
       IF Len(params) >= 1 THEN AbiIndex(type_to_abi_string(params[1][2])) ELSE 0,
       IF Len(params) >= 2 THEN AbiIndex(type_to_abi_string(params[2][2])) ELSE 0 >>

RECURSIVE lower_consts(_, _, _, _)
\* first loop of lower_program: the Const items into constructor_ops
lower_consts(items, i, ctx, ops) ==
    IF i > Len(items) \/ Len(ops) < 0 THEN ops
    ELSE lower_consts(items, i + 1, ctx,
            IF items[i][1] = "Const" /\ contains_key(ctx.layout, items[i][2])
            THEN lower_expression_into(ctx, items[i][4], ops) \o
                    <<Push(u64_to_bytes(get(ctx.layout, items[i][2]).slot)), Op("SStore")>>
            ELSE ops)

RECURSIVE insert_params(_, _, _)
\* ctx.params.insert(p.name, 4 + 32 * i) for every parameter
insert_params(params, i, map) ==
    IF i > Len(params) THEN map
    ELSE insert_params(params, i + 1, Insert(map, params[i][1], 4 + 32 * (i - 1)))

IsTerminator(op) == op.op \in {"Return", "Revert", "Stop"}

\* the Stop that lower_program pushes after a function body
append_stop(ops) ==
    IF ~\E k \in 1..Len(ops) : IsTerminator(ops[k]) THEN Append(ops, Op("Stop")) ELSE ops

RECURSIVE lower_functions(_, _, _)
\* second loop of lower_program; st = [ctx, functions, constructor_ops]
lower_functions(items, i, st) ==
    IF i > Len(items) \/ st.ctx.label_count < 0 THEN st
    ELSE IF items[i][1] # "Function" THEN lower_functions(items, i + 1, st)
    ELSE LET f  == items[i]
             c0 == reset_for_function(st.ctx)
         IN  IF f[2] = "init"
             THEN LET c1 == [c0 EXCEPT !.params = insert_params(f[3], 1, @)]
                      b  == lower_block(f[4], 1, [ctx |-> c1, ops |-> st.constructor_ops])
                  IN  lower_functions(items, i + 1,
                        [st EXCEPT !.ctx = b.ctx, !.constructor_ops = b.ops])
             ELSE LET label == c0.label_count
                      c1 == [fresh_label(c0) EXCEPT !.params = insert_params(f[3], 1, @)]
                      b  == lower_block(f[4], 1, [ctx |-> c1, ops |-> <<JumpDest(label)>>])
                  IN  lower_functions(items, i + 1,
                        [st EXCEPT !.ctx = b.ctx,
                                   !.functions = Append(@,
                                        [name     |-> f[2],
                                         selector |-> compute_selector(f[2], f[3]),
                                         ops      |-> append_stop(b.ops),
                                         label    |-> label])])

\* lower_program; a program is the list of its items
lower_program(items) ==
    LET ctx == NewCtx(from_program(items))
        r   == lower_functions(items, 1,
                  [ctx |-> ctx, functions |-> <<>>,
                   constructor_ops |-> lower_consts(items, 1, ctx, <<>>)])
    IN  [functions       |-> r.functions,
         constructor_ops |-> r.constructor_ops,
         label_count     |-> r.ctx.label_count]

----------------------------------------------------------------------------
(* Reentrancy guard (security.rs) *)

\* guard_op clearing the lock before a Return only
guard_op_return_only(op, slot_bytes) ==
    IF op.op = "Return"
    THEN <<Push(<<0>>), Push(slot_bytes), Op("SStore"), op>>
    ELSE <<op>>

\* one op of the body: a Return or a Stop gets the clearing of the lock before it
guard_op(op, slot_bytes) ==
    IF op.op \in {"Return", "Stop"}
    THEN <<Push(<<0>>), Push(slot_bytes), Op("SStore"), op>>
    ELSE <<op>>

RECURSIVE guard_body(_, _, _, _)
\* the loop over the body in add_reentrancy_guard
guard_body(body, i, slot_bytes, guarded) ==
    IF i > Len(body) \/ Len(guarded) < 0 THEN guarded
    ELSE guard_body(body, i + 1, slot_bytes, guarded \o guard_op(body[i], slot_bytes))

\* the guarded op list of one function, ok_label being the label taken for it
guard_function(body, ok_label, slot_bytes) ==
    guard_body(body, 1, slot_bytes,
        << Push(slot_bytes), Op("SLoad"), Op("IsZero"), JumpI(ok_label),
           Push(<<0>>), Push(<<0>>), Op("Revert"),
           JumpDest(ok_label), Push(<<1>>), Push(slot_bytes), Op("SStore") >>)

add_reentrancy_guard_stale_count(m, lock_slot) ==
    [functions       |-> [i \in 1..Len(m.functions) |->
                            [m.functions[i] EXCEPT !.ops =
                                guard_function(@, m.label_count + (i - 1),
                                               u64_to_bytes(lock_slot))]],
     constructor_ops |-> m.constructor_ops,
     label_count     |-> m.label_count]

add_reentrancy_guard(m, lock_slot) ==
    [functions       |-> [i \in 1..Len(m.functions) |->
                            [m.functions[i] EXCEPT !.ops =
                                guard_function(@, m.label_count + (i - 1),
                                               u64_to_bytes(lock_slot))]],
     constructor_ops |-> m.constructor_ops,
     label_count     |-> m.label_count + Len(m.functions)]

----------------------------------------------------------------------------
(* Runtime and deploy code (codegen.rs) *)

\* emit_dispatch_entry without the Dup1 that keeps the selector
emit_dispatch_entry_no_dup(em, func) ==
    byte(label_ref(byte(push_data(em, func.selector), 20), func.label), 87)

\* the dispatcher's test of one function: Dup1, Push4 selector, Eq, Push2 label, JumpI
emit_dispatch_entry(em, func) ==
    byte(label_ref(byte(push_data(byte(em, 128), func.selector), 20), func.label), 87)

RECURSIVE emit_dispatch(_, _, _)
\* the dispatcher's loop over the functions
emit_dispatch(em, funcs, i) ==
    IF i > Len(funcs) \/ Len(em.code) < 0 THEN em
    ELSE emit_dispatch(emit_dispatch_entry(em, funcs[i]), funcs, i + 1)

RECURSIVE emit_body(_, _, _)
\* the ops of one function, with the Pop after an entry JumpDest
emit_body(em, ops, i) ==
    IF i > Len(ops) \/ Len(em.code) < 0 THEN em
    ELSE emit_body(
            IF i = 1 /\ ops[i].op = "JumpDest" THEN byte(emit_op(em, ops[i]), 80)
            ELSE emit_op(em, ops[i]),
            ops, i + 1)

RECURSIVE emit_bodies(_, _, _)
emit_bodies(em, funcs, i) ==
    IF i > Len(funcs) \/ Len(em.code) < 0 THEN em
    ELSE emit_bodies(emit_body(em, funcs[i].ops, 1), funcs, i + 1)

\* the emitter of module_to_runtime after the dispatcher and the fallback revert
dispatch_emitter(m) ==
    LET e1 == IF Len(m.functions) # 0
              THEN emit_dispatch(
                      byte(push_data(byte(push_data(NewEmitter, <<0>>), 53), <<224>>), 28),
                      m.functions, 1)
              ELSE NewEmitter
    IN  byte(push_data(push_data(e1, <<0>>), <<0>>), 253)

\* the emitter of module_to_runtime before into_bytes
runtime_emitter(m) == emit_bodies(dispatch_emitter(m), m.functions, 1)

module_to_runtime(m) == into_bytes(runtime_emitter(m))

program_to_runtime_bytecode(items) == module_to_runtime(lower_program(items))

\* push_usize (values below 2^24)
push_usize(value) ==
    IF value = 0 THEN <<96, 0>>
    ELSE LET bytes == u64_to_bytes(value) IN <<95 + Len(bytes)>> \o bytes

\* prelude with an offset one byte past the start of the runtime
prelude_offset_one_past(runtime_len, total_prefix) ==
    push_usize(runtime_len) \o push_usize(total_prefix + 1) \o push_usize(0) \o <<57>>
    \o push_usize(runtime_len) \o push_usize(0) \o <<243>>

\* the CODECOPY prelude built in one pass of build_deploy
prelude(runtime_len, total_prefix) ==
    push_usize(runtime_len) \o push_usize(total_prefix) \o push_usize(0) \o <<57>>
    \o push_usize(runtime_len) \o push_usize(0) \o <<243>>

RECURSIVE build_deploy_loop(_, _, _, _)
\* pass number it (0..7) of the loop of build_deploy, then the fallback;
\* returns [out, converged, passes, offset]
build_deploy_loop(constructor, runtime, it, cr_len) ==
    IF it >= 8
    THEN [out       |-> constructor \o prelude(Len(runtime), Len(constructor) + cr_len)
                        \o runtime,
          converged |-> FALSE, passes |-> it, offset |-> Len(constructor) + cr_len]
    ELSE LET cr == prelude(Len(runtime), Len(constructor) + cr_len)
         IN  IF Len(cr) = cr_len
             THEN [out |-> constructor \o cr \o runtime,
                   converged |-> TRUE, passes |-> it + 1,
                   offset |-> Len(constructor) + cr_len]
             ELSE build_deploy_loop(constructor, runtime, it + 1, Len(cr))

build_deploy(constructor, runtime) == build_deploy_loop(constructor, runtime, 0, 0)

\* the constructor bytes of program_to_deploy_bytecode: every op but Return and Stop
constructor_bytes(m) ==
    into_bytes(emit_ops(NewEmitter,
        SelectSeq(m.constructor_ops, LAMBDA op : op.op \notin {"Return", "Stop"}), 1))

program_to_deploy_bytecode(items) ==
    LET m == lower_program(items)
    IN  build_deploy(constructor_bytes(m), module_to_runtime(m)).out

----------------------------------------------------------------------------
(* Verifier (verifier.rs).  A VerifyError is <<variant, label>>. *)

scan_op_unconditional(st, op) ==
    CASE op.op = "JumpDest" ->
            IF op.n \in st.defined_labels
            THEN [st EXCEPT !.errors = Append(@, <<"DuplicateLabel", op.n>>)]
            ELSE [st EXCEPT !.defined_labels = @ \cup {op.n}]
      [] op.op \in {"Jump", "JumpI"} ->
            [st EXCEPT !.referenced_labels = Append(@, <<op.n, FALSE>>)]
      [] OTHER -> st

\* one iteration of the first loop of verify_ops;
\* st = [defined_labels, referenced_labels, errors]
scan_op(st, op) ==
    CASE op.op = "JumpDest" ->
            IF op.n \in st.defined_labels
            THEN [st EXCEPT !.errors = Append(@, <<"DuplicateLabel", op.n>>)]
            ELSE [st EXCEPT !.defined_labels = @ \cup {op.n}]
      [] op.op = "Jump" -> [st EXCEPT !.referenced_labels = Append(@, <<op.n, FALSE>>)]
      [] op.op = "JumpI" -> [st EXCEPT !.referenced_labels = Append(@, <<op.n, TRUE>>)]
      [] OTHER -> st

RECURSIVE scan_ops(_, _, _)
\* the first loop of verify_ops from op i on
scan_ops(ops, i, st) ==
    IF i > Len(ops) \/ Len(st.errors) < 0 THEN st
    ELSE scan_ops(ops, i + 1, scan_op(st, ops[i]))

RECURSIVE report_orphans(_, _, _, _)
\* the second loop of verify_ops from reference i on
report_orphans(referenced_labels, i, defined_labels, errors) ==
    IF i > Len(referenced_labels) \/ Len(errors) < 0 THEN errors
    ELSE report_orphans(referenced_labels, i + 1, defined_labels,
            IF referenced_labels[i][1] \notin defined_labels
            THEN Append(errors,
                        IF referenced_labels[i][2]
                        THEN <<"OrphanJumpI", referenced_labels[i][1]>>
                        ELSE <<"OrphanJump", referenced_labels[i][1]>>)
            ELSE errors)

verify_ops(ops, errors) ==
    LET st == scan_ops(ops, 1, [defined_labels |-> {}, referenced_labels |-> <<>>,
                                errors |-> errors])
    IN  report_orphans(st.referenced_labels, 1, st.defined_labels, st.errors)

RECURSIVE verify_functions(_, _, _)
\* the loop of verify_module over module.functions
verify_functions(functions, i, errors) ==
    IF i > Len(functions) \/ Len(errors) < 0 THEN errors
    ELSE verify_functions(functions, i + 1, verify_ops(functions[i].ops, errors))

verify_module(m) ==
    verify_ops(m.constructor_ops, verify_functions(m.functions, 1, <<>>))

----------------------------------------------------------------------------
(* Execution, shared by the specifications *)

Machine ==
    [code |-> code, calldata |-> calldata, pc |-> pc, stack |-> stack,
     storage |-> storage, memory |-> memory, status |-> status]

\* one instruction of the code under execution
Step ==
    /\ phase = "run"
    /\ status = "running"
    /\ LET m == Exec(Machine)
       IN  /\ pc' = m.pc
           /\ stack' = m.stack
           /\ storage' = m.storage
           /\ memory' = m.memory
           /\ status' = m.status
    /\ executed' = executed \cup {pc}
    /\ UNCHANGED <<phase, program, module, code, calldata, stack0, storage0, passes,
                   guard_slot,
                   lexer, tokens,
                   storage_layout, verify_errors,
                   gas_report, type_errors>>

Halted == phase = "run" /\ status # "running"

----------------------------------------------------------------------------
(* Lexer (lexer.rs).  A source is the sequence of its characters; the        *)
(* tokenizer generated from enum Token is kept by its offset into the        *)
(* source.  Tokens are named by their variant; None is the end of the stream *)
(* and of an Option.                                                         *)

\* the offset at which the run of characters of set that starts at offset p ends
RunEnd(source, p, set) ==
    LET stops == {q \in p..Len(source) : q = Len(source) \/ source[q + 1] \notin set}
    IN  CHOOSE q \in stops : \A r \in stops : q <= r

\* Token::lexer(source).next() at offset pos, as [token, start, end]: leading
\* spaces and tabs are skipped unless a newline follows them, a comment is
\* skipped up to its newline
inner_next(source, pos) ==
    LET ws == RunEnd(source, pos, {" ", "\t"})
        ce == RunEnd(source, ws, {" ", "\t", "x", "#"})
    IN  IF pos >= Len(source) THEN [token |-> "None", start |-> pos, end |-> pos]
        ELSE IF ws > pos /\ ws < Len(source) /\ source[ws + 1] = "\n"
        THEN [token |-> "WhitespaceOnlyLine", start |-> pos, end |-> ws + 1]
        ELSE IF ws >= Len(source) THEN [token |-> "None", start |-> ws, end |-> ws]
        ELSE IF source[ws + 1] = "\n"
        THEN [token |-> "Newline", start |-> ws, end |-> ws + 1]
        ELSE IF source[ws + 1] = "#"
        THEN IF ce >= Len(source) THEN [token |-> "None", start |-> ce, end |-> ce]
             ELSE [token |-> "Newline", start |-> ce, end |-> ce + 1]
        ELSE [token |-> "Identifier", start |-> ws,
              end |-> RunEnd(source, ws, {"x"})]

\* PyraLexer::new
PyraLexer(source) ==
    [pos |-> 0, indent_stack |-> <<0>>, pending_dedents |-> 0,
     pending_indent |-> FALSE, pending_token |-> "None", at_line_start |-> TRUE,
     indent_type |-> "None"]

\* the lexer of the specifications that lex nothing
NewLexer == PyraLexer(<<>>)

\* the offset at which the line holding offset current_pos starts
LineStart(source, current_pos) ==
    LET starts == {q \in 0..current_pos : q = 0 \/ source[q] = "\n"}
    IN  CHOOSE q \in starts : \A r \in starts : r <= q

\* the leading spaces and tabs of source[line_start..current_pos]
LinePrefix(source, current_pos) ==
    LET line_start == LineStart(source, current_pos)
        stop == RunEnd(source, line_start, {" ", "\t"})
    IN  SubSeq(source, line_start + 1, IF stop < current_pos THEN stop ELSE current_pos)

\* the indent of a line prefix: 1 per space, 8 per tab
IndentOf(prefix) ==
    Cardinality({i \in 1..Len(prefix) : prefix[i] = " "})
    + 8 * Cardinality({i \in 1..Len(prefix) : prefix[i] = "\t"})

\* Vec::contains on the indent stack
StackContains(indent_stack, indent) ==
    \E i \in 1..Len(indent_stack) : indent_stack[i] = indent

\* the while loop of handle_indentation: the levels above indent are popped
PopAbove(indent_stack, indent) == SelectSeq(indent_stack, LAMBDA level : level <= indent)

\* compare_indent without the test that the indent is on the stack
compare_indent_no_membership(lx, indent) ==
    LET current_level == lx.indent_stack[Len(lx.indent_stack)]
        kept == PopAbove(lx.indent_stack, indent)
    IN  IF indent > current_level
        THEN [lexer |-> [lx EXCEPT !.indent_stack = Append(@, indent),
                                   !.pending_indent = TRUE],
              error |-> "None"]
        ELSE [lexer |-> [lx EXCEPT !.indent_stack = kept,
                                   !.pending_dedents =
                                       @ + (Len(lx.indent_stack) - Len(kept))],
              error |-> "None"]

\* the comparison of the indent with the top of the stack in handle_indentation;
\* lx already has its indent_type
compare_indent(lx, indent) ==
    LET current_level == lx.indent_stack[Len(lx.indent_stack)]
        kept == PopAbove(lx.indent_stack, indent)
    IN  IF indent > current_level
        THEN [lexer |-> [lx EXCEPT !.indent_stack = Append(@, indent),
                                   !.pending_indent = TRUE],
              error |-> "None"]
        ELSE IF indent < current_level
        THEN IF ~StackContains(lx.indent_stack, indent)
             THEN [lexer |-> lx, error |-> "IndentationError"]
             ELSE [lexer |-> [lx EXCEPT !.indent_stack = kept,
                                        !.pending_dedents =
                                            @ + (Len(lx.indent_stack) - Len(kept))],
                   error |-> "None"]
        ELSE [lexer |-> lx, error |-> "None"]

\* handle_indentation without the comparison with the kind of earlier lines
handle_indentation_no_kind(lx, source, current_pos) ==
    LET line_prefix == LinePrefix(source, current_pos)
        has_spaces  == \E i \in 1..Len(line_prefix) : line_prefix[i] = " "
        has_tabs    == \E i \in 1..Len(line_prefix) : line_prefix[i] = "\t"
    IN  IF has_spaces /\ has_tabs
        THEN [lexer |-> lx, error |-> "MixedIndentationError"]
        ELSE compare_indent(lx, IndentOf(line_prefix))

\* PyraLexer::handle_indentation for the token that starts at current_pos;
\* returns the lexer and the error token (None when there is none)
handle_indentation(lx, source, current_pos) ==
    LET line_prefix == LinePrefix(source, current_pos)
        indent      == IndentOf(line_prefix)
        has_spaces  == \E i \in 1..Len(line_prefix) : line_prefix[i] = " "
        has_tabs    == \E i \in 1..Len(line_prefix) : line_prefix[i] = "\t"
        current_indent_type == IF has_tabs THEN "Tabs" ELSE "Spaces"
    IN  IF has_spaces /\ has_tabs
        THEN [lexer |-> lx, error |-> "MixedIndentationError"]
        ELSE IF indent > 0 /\ lx.indent_type = "None"
        THEN compare_indent([lx EXCEPT !.indent_type = current_indent_type], indent)
        ELSE IF indent > 0 /\ lx.indent_type # current_indent_type
        THEN [lexer |-> lx, error |-> "MixedIndentationError"]
        ELSE compare_indent(lx, indent)

\* end_of_input with a single Dedent whatever the depth
end_of_input_one_dedent(lx) ==
    IF Len(lx.indent_stack) - 1 = 0 THEN [lexer |-> lx, token |-> "None"]
    ELSE [lexer |-> [lx EXCEPT !.indent_stack = <<0>>], token |-> "Dedent"]

\* the None arm of the match in next_token: the tokenizer is exhausted
end_of_input(lx) ==
    LET depth == Len(lx.indent_stack) - 1
    IN  IF depth = 0 THEN [lexer |-> lx, token |-> "None"]
        ELSE [lexer |-> [lx EXCEPT !.indent_stack = <<0>>,
                                   !.pending_dedents = depth - 1],
              token |-> "Dedent"]

\* next_inner with the indentation of a blank or whitespace-only line handled
\* like that of a line with content
next_inner_blank_lines_indent(lx, source, tok) ==
    LET l0 == [lx EXCEPT !.pos = tok.end]
        h  == handle_indentation(l0, source, tok.start)
        l1 == [h.lexer EXCEPT !.at_line_start = FALSE]
    IN  CASE tok.token \in {"Newline", "WhitespaceOnlyLine"} ->
                [lexer |-> [(IF lx.at_line_start THEN h.lexer ELSE l0) EXCEPT
                               !.at_line_start = TRUE],
                 token |-> "Newline"]
          [] tok.token = "None" ->
                end_of_input(l0)
          [] OTHER ->
                IF ~lx.at_line_start THEN [lexer |-> l0, token |-> tok.token]
                ELSE IF h.error # "None" THEN [lexer |-> h.lexer, token |-> h.error]
                ELSE IF l1.pending_indent
                THEN [lexer |-> [l1 EXCEPT !.pending_indent = FALSE,
                                           !.pending_token = tok.token],
                      token |-> "Indent"]
                ELSE IF l1.pending_dedents > 0
                THEN [lexer |-> [l1 EXCEPT !.pending_dedents = @ - 1,
                                           !.pending_token = tok.token],
                      token |-> "Dedent"]
                ELSE [lexer |-> l1, token |-> tok.token]

\* the match on self.inner.next() in next_token; tok is what the tokenizer gave
next_inner(lx, source, tok) ==
    LET l0 == [lx EXCEPT !.pos = tok.end]
        h  == handle_indentation(l0, source, tok.start)
        l1 == [h.lexer EXCEPT !.at_line_start = FALSE]
    IN  CASE tok.token \in {"Newline", "WhitespaceOnlyLine"} ->
                [lexer |-> [l0 EXCEPT !.at_line_start = TRUE], token |-> "Newline"]
          [] tok.token = "None" ->
                end_of_input(l0)
          [] OTHER ->
                IF ~lx.at_line_start THEN [lexer |-> l0, token |-> tok.token]
                ELSE IF h.error # "None" THEN [lexer |-> h.lexer, token |-> h.error]
                ELSE IF l1.pending_indent
                THEN [lexer |-> [l1 EXCEPT !.pending_indent = FALSE,
                                           !.pending_token = tok.token],
                      token |-> "Indent"]
                ELSE IF l1.pending_dedents > 0
                THEN [lexer |-> [l1 EXCEPT !.pending_dedents = @ - 1,
                                           !.pending_token = tok.token],
                      token |-> "Dedent"]
                ELSE [lexer |-> l1, token |-> tok.token]

\* PyraLexer::next_token; returns the lexer after the call and the token returned
next_token(lx, source) ==
    IF lx.pending_indent
    THEN [lexer |-> [lx EXCEPT !.pending_indent = FALSE], token |-> "Indent"]
    ELSE IF lx.pending_dedents > 0
    THEN [lexer |-> [lx EXCEPT !.pending_dedents = @ - 1], token |-> "Dedent"]
    ELSE IF lx.pending_token # "None"
    THEN [lexer |-> [lx EXCEPT !.pending_token = "None"], token |-> lx.pending_token]
    ELSE next_inner(lx, source, inner_next(source, lx.pos))

----------------------------------------------------------------------------
(* SpecArith: a binary expression left op right over two literals is        *)
(* lowered, hardened, assembled and run on a stack that already holds some   *)
(* words.                                                                    *)

\* a BigUint literal with the value of word w
ToBigUint(w) ==
    IF w = ZeroWord THEN <<>>
    ELSE LET first == CHOOSE i \in 1..WordBytes :
                        w[i] # 0 /\ \A j \in 1..(i - 1) : w[j] = 0
         IN  SubSeq(w, first, WordBytes)

Operands ==
    {NatToWord(d) : d \in 0..MaxDelta}
    \cup {WSub(MaxWord, NatToWord(d)) : d \in 0..(MaxDelta - 1)}
    \cup UNION { {WAdd(Pow2Word(128), NatToWord(d)), WSub(Pow2Word(128), NatToWord(d))} :
                 d \in 0..MaxDelta }

\* the words below the operands
Rest(k) == [i \in 1..k |-> NatToWord(160 + i)]

InitArith ==
    /\ phase = "source"
    /\ program \in { <<"Binary", op, <<"Number", ToBigUint(a)>>, <<"Number", ToBigUint(b)>>>> :
                     op \in {"Add", "Sub", "Mul"}, a \in Operands, b \in Operands }
    /\ stack0 \in {Rest(0), Rest(MaxRest)}
    /\ module = [functions |-> <<>>, constructor_ops |-> <<>>, label_count |-> 0]
    /\ code = <<>>
    /\ calldata = <<>>
    /\ pc = 0
    /\ stack = <<>>
    /\ storage = EmptyMap
    /\ memory = EmptyMap
    /\ status = "idle"
    /\ executed = {}
    /\ storage0 = EmptyMap
    /\ passes = <<>>
    /\ guard_slot = -1
    /\ storage_layout = EmptyLayout
    /\ verify_errors = <<>>
    /\ gas_report = NoReport
    /\ type_errors = <<>>
    /\ lexer = NewLexer
    /\ tokens = <<>>

\* lower_expression on the expression, as the ops of a module's only function
LowerExpression ==
    /\ phase = "source"
    /\ phase' = "lowered"
    /\ module' = [functions |-> << [name |-> "t", selector |-> <<0, 0, 0, 0>>,
                                   ops |-> lower_expression(NewCtx(EmptyLayout), program),
                                   label |-> 0] >>,
                  constructor_ops |-> <<>>,
                  label_count |-> 1]
    /\ passes' = Append(passes, "lower")
    /\ UNCHANGED <<program, code, calldata, pc, stack, storage, memory, status,
                   executed, stack0, storage0, guard_slot,
                   lexer, tokens,
                   storage_layout, verify_errors,
                   gas_report, type_errors>>

Harden ==
    /\ phase = "lowered"
    /\ phase' = "hardened"
    /\ module' = harden(module)
    /\ passes' = Append(passes, "harden")
    /\ UNCHANGED <<program, code, calldata, pc, stack, storage, memory, status,
                   executed, stack0, storage0, guard_slot,
                   lexer, tokens,
                   storage_layout, verify_errors,
                   gas_report, type_errors>>

\* the function's ops through Emitter::emit_op and into_bytes, then started on stack0
AssembleOps ==
    /\ phase = "hardened"
    /\ phase' = "run"
    /\ code' = into_bytes(emit_ops(NewEmitter, module.functions[1].ops, 1))
    /\ pc' = 0
    /\ stack' = stack0
    /\ status' = "running"
    /\ passes' = Append(passes, "assemble")
    /\ UNCHANGED <<program, module, calldata, storage, memory, executed, stack0,
                   storage0, guard_slot,
                   lexer, tokens,
                   storage_layout, verify_errors,
                   gas_report, type_errors>>

NextArith == LowerExpression \/ Harden \/ AssembleOps \/ Step

SpecArith == InitArith /\ [][NextArith]_vars

\* the operands of the expression, as words
LeftWord == PadLeft(program[3][2])

RightWord == PadLeft(program[4][2])

\* the expression's operator
ArithOp == program[2]

\* the run ended by reaching the end of the sequence with exactly w put in the
\* place of the two operands
ContinuesWith(w) == status = "end" /\ stack = <<w>> \o stack0

(* C1: the sequence that replaces Add reverts exactly when left + right does
   not fit in a word, and otherwise continues with the operands replaced by
   left + right and the words below untouched. *)
C1_CheckedAdd ==
    (Halted /\ ArithOp = "Add") =>
        IF AddOverflows(LeftWord, RightWord) THEN status = "revert"
        ELSE ContinuesWith(WAdd(LeftWord, RightWord))

(* C2: the sequence that replaces the Sub lowered from left - right reverts
   exactly when left < right, and otherwise continues with the operands
   replaced by left - right and the words below untouched. *)
C2_CheckedSub ==
    (Halted /\ ArithOp = "Sub") =>
        IF WLt(LeftWord, RightWord) THEN status = "revert"
        ELSE ContinuesWith(WSub(LeftWord, RightWord))

\* a subtraction with left > right > 0 has run to its end above other words
C2_Witness ==
    /\ Halted /\ ArithOp = "Sub" /\ status = "end"
    /\ WLt(RightWord, LeftWord) /\ RightWord # ZeroWord
    /\ stack0 # <<>>

(* C3: the sequence that replaces Mul yields 0 without reverting when an
   operand is 0, reverts exactly when left * right does not fit in a word, and
   otherwise continues with the operands replaced by left * right. *)
C3_CheckedMul ==
    (Halted /\ ArithOp = "Mul") =>
        IF LeftWord = ZeroWord \/ RightWord = ZeroWord THEN ContinuesWith(ZeroWord)
        ELSE IF MulOverflows(LeftWord, RightWord) THEN status = "revert"
        ELSE ContinuesWith(WMul(LeftWord, RightWord))

(* C4: every path through a checked sequence that does not revert reaches the
   sequence's end having popped the two operands and pushed one word, with the
   words below the operands as they were. *)
C4_StackShape ==
    (Halted /\ status # "revert") =>
        /\ status = "end"
        /\ Len(stack) = Len(stack0) + 1
        /\ Drop(stack, 1) = stack0

----------------------------------------------------------------------------
(* SpecRuntime: a program is compiled to runtime code, by                    *)
(* program_to_runtime_bytecode or stage by stage with the reentrancy guard   *)
(* between lowering and assembly, and the code is then called.               *)

MaxLockSlot == 1

LockSlots == 0..MaxLockSlot

Number(n) == <<"Number", <<n>>>>

Identifier(name) == <<"Identifier", name>>

Binary(op, left, right) == <<"Binary", op, left, right>>

Function(name, params, body) == <<"Function", name, params, body>>

Parameter(name) == <<name, <<"Uint256">>>>

\* the programs that are compiled
Programs ==
    { \* no item at all
      <<>>,
      \* def t(): return 1 + 2      def u(): return 3
      << Function("t", <<>>, << <<"Return", Binary("Add", Number(1), Number(2))>> >>),
         Function("u", <<>>, << <<"Return", Number(3)>> >>) >>,
      \* def t(): require 1         def u(): return 3
      << Function("t", <<>>, << <<"Require", Number(1)>> >>),
         Function("u", <<>>, << <<"Return", Number(3)>> >>) >>,
      \* def t(x: uint256): if x: return 1      def u(): return
      << Function("t", <<Parameter("x")>>,
                  << <<"If", Identifier("x"), << <<"Return", Number(1)>> >> >> >>),
         Function("u", <<>>, << <<"ReturnNone">> >>) >>,
      \* def t(): return 1          def t(): return 2
      << Function("t", <<>>, << <<"Return", Number(1)>> >>),
         Function("t", <<>>, << <<"Return", Number(2)>> >>) >>,
      \* def init(): a = 1          def t(x: uint256): a = x - 1; return a * 2
      << Function("init", <<>>, << <<"Assign", Identifier("a"), Number(1)>> >>),
         Function("t", <<Parameter("x")>>,
                  << <<"Assign", Identifier("a"), Binary("Sub", Identifier("x"), Number(1))>>,
                     <<"Return", Binary("Mul", Identifier("a"), Number(2))>> >>) >>,
      \* def t(x: uint256): require x; a = x      def u(): require a
      << Function("t", <<Parameter("x")>>,
                  << <<"Require", Identifier("x")>>,
                     <<"Assign", Identifier("a"), Identifier("x")>> >>),
         Function("u", <<>>, << <<"Require", Identifier("a")>> >>) >> }

InitRuntime ==
    /\ phase = "source"
    /\ program \in Programs
    /\ module = [functions |-> <<>>, constructor_ops |-> <<>>, label_count |-> 0]
    /\ code = <<>>
    /\ calldata = <<>>
    /\ pc = 0
    /\ stack = <<>>
    /\ storage = EmptyMap
    /\ memory = EmptyMap
    /\ status = "idle"
    /\ executed = {}
    /\ stack0 = <<>>
    /\ storage0 = EmptyMap
    /\ passes = <<>>
    /\ guard_slot = -1
    /\ storage_layout = EmptyLayout
    /\ verify_errors = <<>>
    /\ gas_report = NoReport
    /\ type_errors = <<>>
    /\ lexer = NewLexer
    /\ tokens = <<>>

\* program_to_runtime_bytecode
Compile ==
    /\ phase = "source"
    /\ phase' = "assembled"
    /\ module' = lower_program(program)
    /\ code' = program_to_runtime_bytecode(program)
    /\ passes' = <<"lower", "assemble">>
    /\ UNCHANGED <<program, calldata, pc, stack, storage, memory, status, executed,
                   stack0, storage0, guard_slot,
                   lexer, tokens,
                   storage_layout, verify_errors,
                   gas_report, type_errors>>

\* program_to_deploy_bytecode
CompileDeploy ==
    /\ phase = "source"
    /\ phase' = "deploy"
    /\ module' = lower_program(program)
    /\ code' = program_to_deploy_bytecode(program)
    /\ passes' = <<"lower", "assemble">>
    /\ UNCHANGED <<program, calldata, pc, stack, storage, memory, status, executed,
                   stack0, storage0, guard_slot,
                   lexer, tokens,
                   storage_layout, verify_errors,
                   gas_report, type_errors>>

\* lower_program
Lower ==
    /\ phase = "source"
    /\ phase' = "lowered"
    /\ module' = lower_program(program)
    /\ passes' = <<"lower">>
    /\ UNCHANGED <<program, code, calldata, pc, stack, storage, memory, status,
                   executed, stack0, storage0, guard_slot,
                   lexer, tokens,
                   storage_layout, verify_errors,
                   gas_report, type_errors>>

\* add_reentrancy_guard(module, s)
Guard ==
    /\ phase = "lowered"
    /\ phase' = "guarded"
    /\ \E s \in LockSlots :
          /\ module' = add_reentrancy_guard(module, s)
          /\ guard_slot' = s
    /\ passes' = Append(passes, "guard")
    /\ UNCHANGED <<program, code, calldata, pc, stack, storage, memory, status,
                   executed, stack0, storage0,
                   lexer, tokens,
                   storage_layout, verify_errors,
                   gas_report, type_errors>>

\* module_to_runtime on the guarded module
Assemble ==
    /\ phase = "guarded"
    /\ phase' = "assembled"
    /\ code' = module_to_runtime(module)
    /\ passes' = Append(passes, "assemble")
    /\ UNCHANGED <<program, module, calldata, pc, stack, storage, memory, status,
                   executed, stack0, storage0, guard_slot,
                   lexer, tokens,
                   storage_layout, verify_errors,
                   gas_report, type_errors>>

\* the word of the lock slot as a storage key
LockKey == PadLeft(u64_to_bytes(guard_slot))

\* the call data of the calls made: every function's selector and one that no
\* function has, each followed by one argument word, and the empty call data
Calls ==
    { sel \o arg :
        sel \in {module.functions[i].selector : i \in 1..Len(module.functions)}
                \cup {<<222, 173, 190, 239>>},
        arg \in {ZeroWord, OneWord} }
    \cup {<<>>}

\* a message call to the runtime code; the lock may be held when it arrives
Call ==
    /\ phase = "assembled"
    /\ phase' = "run"
    /\ \E cd \in Calls : calldata' = cd
    /\ \E held \in (IF guard_slot >= 0 THEN BOOLEAN ELSE {FALSE}) :
          storage' = IF held THEN Store(EmptyMap, LockKey, OneWord) ELSE EmptyMap
    /\ storage0' = storage'
    /\ pc' = 0
    /\ stack' = <<>>
    /\ status' = "running"
    /\ UNCHANGED <<program, module, code, memory, executed, stack0, passes, guard_slot,
                   lexer, tokens,
                   storage_layout, verify_errors,
                   gas_report, type_errors>>

NextRuntime == Compile \/ CompileDeploy \/ Lower \/ Guard \/ Assemble \/ Call \/ Step

SpecRuntime == InitRuntime /\ [][NextRuntime]_vars

\* the byte offset, in module_to_runtime(m), of op k of function i
op_offset(m, i, k) ==
    Len(emit_body(emit_bodies(dispatch_emitter(m), SubSeq(m.functions, 1, i - 1), 1),
                  SubSeq(m.functions[i].ops, 1, k - 1), 1).code)

\* the byte offset at which the function bodies begin
BodiesStart == Len(dispatch_emitter(module).code)

\* the offsets of function bodies whose instruction has run
Ran == {p \in executed : p >= BodiesStart}

\* the 4-byte selector of the call: bytes 0..3 of the call data, zero where absent
Selector == [k \in 1..4 |-> IF k <= Len(calldata) THEN calldata[k] ELSE 0]

\* the first function, in declaration order, with the call's selector; 0 if none
FirstMatch ==
    IF \E i \in 1..Len(module.functions) : module.functions[i].selector = Selector
    THEN CHOOSE i \in 1..Len(module.functions) :
            /\ module.functions[i].selector = Selector
            /\ \A j \in 1..(i - 1) : module.functions[j].selector # Selector
    ELSE 0

\* the index, in function i's ops, of the JumpDest of the function's label
EntryIndex(i) ==
    CHOOSE k \in 1..Len(module.functions[i].ops) :
        /\ module.functions[i].ops[k] = JumpDest(module.functions[i].label)
        /\ \A j \in 1..(k - 1) :
              module.functions[i].ops[j] # JumpDest(module.functions[i].label)

Guarded == guard_slot >= 0

\* the guard's entry of a function, as add_reentrancy_guard builds it
GuardEntry == guard_function(<<>>, 0, u64_to_bytes(guard_slot))

\* the index of the guard's SLoad, and of its SStore, in a guarded function
GuardSLoad == CHOOSE k \in 1..Len(GuardEntry) : GuardEntry[k].op = "SLoad"

GuardSStore == CHOOSE k \in 1..Len(GuardEntry) : GuardEntry[k].op = "SStore"

(* C5: in a module guarded with slot s and assembled behind the dispatcher,  *)
(* an execution that has run the first original body op of a function has    *)
(* run that function's guard before: the SLoad of slot s and the SStore of 1 *)
(* to it; the dispatcher's target lies before the guard's entry check; and   *)
(* a call that arrives while slot s is non-zero ends in a revert.            *)
C5_GuardBeforeBody ==
    (phase = "run" /\ Guarded) =>
        /\ \A i \in 1..Len(module.functions) :
              /\ op_offset(module, i, EntryIndex(i)) <= op_offset(module, i, GuardSLoad)
              /\ op_offset(module, i, Len(GuardEntry) + 1) \in executed =>
                    /\ op_offset(module, i, GuardSLoad) \in executed
                    /\ op_offset(module, i, GuardSStore) \in executed
        /\ (Halted /\ FirstMatch # 0 /\ Load(storage0, LockKey) # ZeroWord) =>
              status = "revert"

(* C6: after add_reentrancy_guard(module, s) every Return and every Stop of  *)
(* a function is immediately preceded by Push(0), Push(s), SStore; an        *)
(* execution that ends in Return or Stop ends with slot s equal to 0, and a  *)
(* Return still finds its operands (offset 64, size 32) on the stack.        *)
C6_LockClearedAtExit ==
    Guarded =>
        /\ \A i \in 1..Len(module.functions) :
              \A k \in 1..Len(module.functions[i].ops) :
                  module.functions[i].ops[k].op \in {"Return", "Stop"} =>
                      /\ k > 3
                      /\ SubSeq(module.functions[i].ops, k - 3, k - 1)
                            = <<Push(<<0>>), Push(u64_to_bytes(guard_slot)), Op("SStore")>>
        /\ (Halted /\ status \in {"return", "stop"}) =>
              /\ Load(storage, LockKey) = ZeroWord
              /\ (pc - 1) \in executed
              /\ code[pc] = OpByte("SStore")
        /\ (Halted /\ status = "return") =>
              /\ Len(stack) >= 2
              /\ stack[1] = NatToWord(64)
              /\ stack[2] = NatToWord(32)

\* a call that arrived with the lock held has ended in Return with the lock clear
C6_Witness ==
    /\ Halted
    /\ Guarded
    /\ status = "return"
    /\ Load(storage0, LockKey) # ZeroWord
    /\ Load(storage, LockKey) = ZeroWord

(* C7: the last op of every non-init function's lowered op list is Return,   *)
(* Revert or Stop.                                                           *)
C7_BodyEndsInTerminator ==
    (phase # "source") =>
        \A i \in 1..Len(module.functions) :
            IsTerminator(module.functions[i].ops[Len(module.functions[i].ops)])

(* C8: a call whose selector is that of a function enters the function       *)
(* bodies at the entry JumpDest of the first such function in declaration    *)
(* order and never runs the fallback revert; a call whose selector matches   *)
(* no function runs no op of any body and ends in the fallback revert.       *)
C8_Dispatch ==
    (phase = "run") =>
        IF FirstMatch = 0
        THEN /\ Ran = {}
             /\ pc < BodiesStart
             /\ Halted => (status = "revert" /\ pc = BodiesStart - 1)
        ELSE /\ (Ran = {} /\ pc >= BodiesStart) =>
                    /\ pc = op_offset(module, FirstMatch, EntryIndex(FirstMatch))
                    /\ code[pc + 1] = 91
             /\ (BodiesStart - 1) \notin executed
             /\ Halted => Ran # {}

\* the call's selector is the second function's: its body has run to a Return
C8_Witness ==
    /\ Halted
    /\ FirstMatch = 2
    /\ status = "return"
    /\ op_offset(module, 2, EntryIndex(2)) \in executed

(* C10: the bytes that program_to_runtime_bytecode and                       *)
(* program_to_deploy_bytecode emit are those of the module after harden:     *)
(* the order is lower, harden, assemble.                                     *)
C10_HardenedBeforeAssembly ==
    /\ (phase = "assembled" /\ ~Guarded) =>
          code = module_to_runtime(harden(lower_program(program)))
    /\ (phase = "deploy") =>
          code = build_deploy(constructor_bytes(harden(lower_program(program))),
                              module_to_runtime(harden(lower_program(program)))).out

----------------------------------------------------------------------------
(* SpecDeploy: build_deploy on constructor bytes and runtime bytes whose     *)
(* lengths lie around the values at which a pushed length or offset takes    *)
(* one more byte.                                                            *)

MaxPad == 2

\* lengths of the constructor: short ones, and those that bring the offset of
\* the runtime to 256
CtorLens == (0..MaxPad) \cup ((243 - MaxPad)..(244 + MaxPad))

\* lengths of the runtime: short ones, and those around 256
RuntimeLens == (0..MaxPad) \cup ((255 - MaxPad)..(255 + MaxPad))

\* n bytes, the byte at each place depending on the place
Bytes(n, seed) == [i \in 1..n |-> (seed + 7 * i) % 256]

InitDeploy ==
    /\ phase = "bytes"
    /\ \E c \in CtorLens, r \in RuntimeLens :
          program = [constructor |-> Bytes(c, 91), runtime |-> Bytes(r, 0)]
    /\ module = [functions |-> <<>>, constructor_ops |-> <<>>, label_count |-> 0]
    /\ code = <<>>
    /\ calldata = <<>>
    /\ pc = 0
    /\ stack = <<>>
    /\ storage = EmptyMap
    /\ memory = EmptyMap
    /\ status = "idle"
    /\ executed = {}
    /\ stack0 = <<>>
    /\ storage0 = EmptyMap
    /\ passes = <<>>
    /\ guard_slot = -1
    /\ storage_layout = EmptyLayout
    /\ verify_errors = <<>>
    /\ gas_report = NoReport
    /\ type_errors = <<>>
    /\ lexer = NewLexer
    /\ tokens = <<>>

\* build_deploy(constructor, runtime)
BuildDeploy ==
    /\ phase = "bytes"
    /\ phase' = "built"
    /\ code' = build_deploy(program.constructor, program.runtime).out
    /\ UNCHANGED <<program, module, calldata, pc, stack, storage, memory, status,
                   executed, stack0, storage0, passes, guard_slot,
                   lexer, tokens,
                   storage_layout, verify_errors,
                   gas_report, type_errors>>

NextDeploy == BuildDeploy

SpecDeploy == InitDeploy /\ [][NextDeploy]_vars

\* the value pushed by the PUSHn at offset p of the built code
Pushed(p) == WordToNat(PushWord(code, p, code[p + 1] - 95))

\* the offset operand of CODECOPY: the second push after the constructor
CodeCopyOffset ==
    Pushed(Len(program.constructor) + InstrLen(code[Len(program.constructor) + 1]))

(* C9: build_deploy returns constructor ++ prelude ++ runtime; the offset    *)
(* pushed for CODECOPY is len(constructor) + len(prelude), the index at      *)
(* which the runtime bytes begin; the loop reaches this prelude within its   *)
(* 8 passes and the fallback after the loop is not taken.                    *)
C9_DeployLayout ==
    (phase = "built") =>
        LET c == program.constructor
            r == program.runtime
            d == build_deploy(c, r)
        IN  /\ d.converged
            /\ d.passes <= 8
            /\ Len(code) >= Len(c) + Len(r)
            /\ SubSeq(code, 1, Len(c)) = c
            /\ SubSeq(code, Len(code) - Len(r) + 1, Len(code)) = r
            /\ Pushed(Len(c)) = Len(r)
            /\ CodeCopyOffset = Len(code) - Len(r)
            /\ SubSeq(code, Len(c) + 1, Len(code) - Len(r))
                  = prelude(Len(r), CodeCopyOffset)

\* the offset of the runtime needs a second byte only once the prelude is
\* counted: the loop takes a third pass
C9_Witness ==
    /\ phase = "built"
    /\ build_deploy(program.constructor, program.runtime).passes = 3
    /\ Len(program.constructor) < 256
    /\ CodeCopyOffset >= 256

----------------------------------------------------------------------------
(* SpecLexer: PyraLexer over a source of a few lines; next_token is called   *)
(* until the stream has ended, and a few times more.                         *)

MaxLines == 3

MaxCallsAfterEnd == 2

\* the lines a source is made of: blank, whitespace-only and comment-only
\* lines, and lines of one or two identifiers behind spaces, a tab, or both
LineKinds ==
    { <<>>, <<" ">>, <<" ", "#">>,
      <<"x">>, <<" ", "x">>, <<" ", " ", "x">>, <<"\t", "x">>, <<" ", "\t", "x">>,
      <<"x", " ", "x">>, <<" ", "x", " ", "x">> }

RECURSIVE Join(_, _, _)
\* the lines from line i on, each after a newline, appended to acc
Join(lines, i, acc) ==
    IF i > Len(lines) \/ Len(acc) < 0 THEN acc
    ELSE Join(lines, i + 1, (IF i = 1 THEN acc ELSE Append(acc, "\n")) \o lines[i])

Sources ==
    UNION { {Join(lines, 1, <<>>) : lines \in [1..n -> LineKinds]} : n \in 0..MaxLines }

InitLexer ==
    /\ phase = "lex"
    /\ program \in Sources
    /\ lexer = PyraLexer(program)
    /\ tokens = <<>>
    /\ module = [functions |-> <<>>, constructor_ops |-> <<>>, label_count |-> 0]
    /\ code = <<>>
    /\ calldata = <<>>
    /\ pc = 0
    /\ stack = <<>>
    /\ storage = EmptyMap
    /\ memory = EmptyMap
    /\ status = "idle"
    /\ executed = {}
    /\ stack0 = <<>>
    /\ storage0 = EmptyMap
    /\ passes = <<>>
    /\ guard_slot = -1
    /\ storage_layout = EmptyLayout
    /\ verify_errors = <<>>
    /\ gas_report = NoReport
    /\ type_errors = <<>>

\* the number of tokens of kind k returned so far
Count(k) == Cardinality({i \in 1..Len(tokens) : tokens[i] = k})

\* one call of next_token
NextToken ==
    /\ phase = "lex"
    /\ Count("None") < MaxCallsAfterEnd
    /\ LET r == next_token(lexer, program)
       IN  /\ lexer' = r.lexer
           /\ tokens' = Append(tokens, r.token)
    /\ UNCHANGED <<phase, program, module, code, calldata, pc, stack, storage, memory,
                   status, executed, stack0, storage0, passes, guard_slot,
                   storage_layout, verify_errors,
                   gas_report, type_errors>>

NextLexer == NextToken

SpecLexer == InitLexer /\ [][NextLexer]_vars

(* C11: no prefix of the token stream has more Dedents than Indents (the     *)
(* difference is the number of levels on the stack above zero plus the       *)
(* Dedents still owed); once the tokenizer is exhausted the lexer emits one  *)
(* Dedent per level still above zero, so that the complete stream has as     *)
(* many Dedents as Indents, and every call after the first None gives None.  *)
C11_BalancedIndents ==
    (phase = "lex") =>
        /\ Count("Dedent") <= Count("Indent")
        /\ Count("Indent") - Count("Dedent")
              = (Len(lexer.indent_stack) - 1) + lexer.pending_dedents
        /\ Count("None") > 0 =>
              /\ Count("Dedent") = Count("Indent")
              /\ lexer.indent_stack = <<0>>
              /\ \A i \in 1..Len(tokens) : \A j \in i..Len(tokens) :
                    tokens[i] = "None" => tokens[j] = "None"

\* the source ends two levels deep: two Dedents, then None twice
C11_Witness ==
    /\ phase = "lex"
    /\ Len(tokens) >= 5
    /\ SubSeq(tokens, Len(tokens) - 4, Len(tokens))
          = <<"Identifier", "Dedent", "Dedent", "None", "None">>

\* the call about to be made has nothing pending: it asks the tokenizer
AsksTokenizer ==
    /\ ~lexer.pending_indent
    /\ lexer.pending_dedents = 0
    /\ lexer.pending_token = "None"

\* what the tokenizer gives to the call about to be made
Inner == inner_next(program, lexer.pos)

\* the offsets at which the lines of the source start
LineStarts == {q \in 0..Len(program) : q = 0 \/ program[q] = "\n"}

\* the leading whitespace of the line that starts at offset ls
PrefixAt(ls) == SubSeq(program, ls + 1, RunEnd(program, ls, {" ", "\t"}))

\* the line that starts at offset ls has a content token
HasContent(ls) ==
    LET e == RunEnd(program, ls, {" ", "\t"})
    IN  e < Len(program) /\ program[e + 1] = "x"

\* the characters a prefix is made of
Kinds(prefix) == {prefix[i] : i \in 1..Len(prefix)}

\* the start of the line of the token the tokenizer gives
CurrentLine == LineStart(program, Inner.start)

\* the call about to be made takes the first token of a line from the tokenizer
FirstOfLine ==
    /\ phase = "lex"
    /\ AsksTokenizer
    /\ Inner.token = "Identifier"
    /\ CurrentLine + Len(PrefixAt(CurrentLine)) = Inner.start

\* the indent I of that line, and the top of the stack S
LineIndent == IndentOf(PrefixAt(CurrentLine))

Top == lexer.indent_stack[Len(lexer.indent_stack)]

\* the levels of S, and those that a dedent to I pops
Levels == {lexer.indent_stack[i] : i \in 1..Len(lexer.indent_stack)}

Popped == {l \in Levels : l > LineIndent}

\* the token the call returns
Returned == tokens'[Len(tokens')]

\* the line passes the checks of its whitespace: one kind of character, the
\* kind of the earlier indented lines
PassesKindCheck ==
    /\ Kinds(PrefixAt(CurrentLine)) # {" ", "\t"}
    /\ \/ LineIndent = 0
       \/ lexer.indent_type = "None"
       \/ lexer.indent_type = (IF "\t" \in Kinds(PrefixAt(CurrentLine))
                               THEN "Tabs" ELSE "Spaces")

\* what C12 says of a call that takes the first token of a line with I < top(S)
DedentOutcome ==
    IF LineIndent \notin Levels
    THEN /\ Returned = "IndentationError"
         /\ lexer'.indent_stack = lexer.indent_stack
    ELSE /\ Returned = "Dedent"
         /\ lexer'.indent_stack
               = SelectSeq(lexer.indent_stack, LAMBDA l : l \notin Popped)
         /\ lexer'.pending_dedents = Cardinality(Popped) - 1
         /\ lexer'.pending_token = Inner.token

\* a call made while Dedents are owed returns a Dedent and keeps the content
\* token; the content token follows the last of them
OwedDedentsFirst ==
    /\ (phase = "lex" /\ ~lexer.pending_indent /\ lexer.pending_dedents > 0
            /\ lexer.pending_token # "None") =>
          /\ Returned = "Dedent"
          /\ lexer'.pending_dedents = lexer.pending_dedents - 1
          /\ lexer'.pending_token = lexer.pending_token
          /\ lexer'.indent_stack = lexer.indent_stack
    /\ (phase = "lex" /\ ~lexer.pending_indent /\ lexer.pending_dedents = 0
            /\ lexer.pending_token # "None") =>
          Returned = lexer.pending_token

(* C12 as stated: when the first token of a line has indent I < top(S), then *)
(* if I is not in S the lexer emits IndentationError and leaves S unchanged, *)
(* otherwise it pops exactly the levels greater than I and emits one Dedent  *)
(* per popped level, all before the line's first content token.              *)
C12_Dedent ==
    [][ /\ (FirstOfLine /\ LineIndent < Top) => DedentOutcome
        /\ OwedDedentsFirst ]_vars

(* C12 amended: the same, for a line that does not raise                     *)
(* MixedIndentationError (its leading whitespace is of one kind, the kind    *)
(* of the earlier indented lines).                                           *)
C12_DedentOfAcceptedLine ==
    [][ /\ (FirstOfLine /\ LineIndent < Top /\ PassesKindCheck) => DedentOutcome
        /\ OwedDedentsFirst ]_vars

\* a line has popped two levels: two Dedents, then its first content token
C12_Witness ==
    /\ phase = "lex"
    /\ Count("None") = 0
    /\ Len(tokens) >= 3
    /\ SubSeq(tokens, Len(tokens) - 2, Len(tokens)) = <<"Dedent", "Dedent", "Identifier">>

\* the first earlier line with a content token and non-zero indent
IndentedBefore == {q \in LineStarts : q < CurrentLine /\ HasContent(q) /\ PrefixAt(q) # <<>>}

FirstIndented == CHOOSE q \in IndentedBefore : \A r \in IndentedBefore : q <= r

\* no line with a content token has a c in its leading whitespace
NoLineUses(c) == \A q \in LineStarts : HasContent(q) => c \notin Kinds(PrefixAt(q))

(* C13: the first token of a line whose leading whitespace has both a space  *)
(* and a tab gives MixedIndentationError; so does the first token of a line  *)
(* with non-zero indent of one character when the first earlier line with    *)
(* non-zero indent uses the other character; a source whose indented lines   *)
(* use only spaces, or only tabs, never gives MixedIndentationError.         *)
C13_MixedIndentation ==
    [][ /\ (FirstOfLine /\ Kinds(PrefixAt(CurrentLine)) = {" ", "\t"}) =>
              Returned = "MixedIndentationError"
        /\ (FirstOfLine /\ Cardinality(Kinds(PrefixAt(CurrentLine))) = 1
                /\ IndentedBefore # {}
                /\ Cardinality(Kinds(PrefixAt(FirstIndented))) = 1
                /\ Kinds(PrefixAt(FirstIndented)) # Kinds(PrefixAt(CurrentLine))) =>
              Returned = "MixedIndentationError"
        /\ (phase = "lex" /\ (NoLineUses("\t") \/ NoLineUses(" "))) =>
              Returned # "MixedIndentationError" ]_vars

\* MixedIndentationError in a source none of whose lines has both characters
C13_Witness ==
    /\ phase = "lex"
    /\ Count("MixedIndentationError") > 0
    /\ \A q \in LineStarts : Kinds(PrefixAt(q)) # {" ", "\t"}

RECURSIVE TokenizerFrom(_, _)
\* what the tokenizer gives from offset pos to the end of the source, with
\* WhitespaceOnlyLine taken as Newline
TokenizerFrom(source, pos) ==
    LET t == inner_next(source, pos)
    IN  IF t.token = "None" THEN <<>>
        ELSE <<IF t.token = "WhitespaceOnlyLine" THEN "Newline" ELSE t.token>>
             \o TokenizerFrom(source, t.end)

\* the tokens returned so far that come from the tokenizer
ContentTokens ==
    SelectSeq(tokens, LAMBDA t : t \notin {"Indent", "Dedent", "IndentationError",
                                          "MixedIndentationError", "None"})

ErrorCount == Count("IndentationError") + Count("MixedIndentationError")

(* C27: the tokens returned, without Indent, Dedent and the two indentation  *)
(* errors, are the tokenizer's tokens in order: a prefix of them while the   *)
(* stream runs, all of them once it has ended; an Indent is followed at once *)
(* by the content token it was computed for, a Dedent by a further Dedent or *)
(* by that token (or by the end of the stream).                              *)
C27_ContentTokensKept ==
    phase = "lex" =>
        LET all == TokenizerFrom(program, 0)
        IN  /\ Len(ContentTokens) <= Len(all)
            /\ ContentTokens = SubSeq(all, 1, Len(ContentTokens))
            /\ Count("None") > 0 => ContentTokens = all
            /\ \A i \in 1..(Len(tokens) - 1) :
                  /\ tokens[i] = "Indent" => tokens[i + 1] = "Identifier"
                  /\ tokens[i] = "Dedent" =>
                        tokens[i + 1] \in {"Dedent", "Identifier", "None"}

\* what holds of the code: the same, with one content token missing for
\* every indentation error returned
C27_ContentTokensKeptButAtErrors ==
    phase = "lex" =>
        LET all == TokenizerFrom(program, 0)
        IN  /\ Count("None") > 0 => Len(ContentTokens) + ErrorCount = Len(all)
            /\ ErrorCount = 0 =>
                  /\ Len(ContentTokens) <= Len(all)
                  /\ ContentTokens = SubSeq(all, 1, Len(ContentTokens))
            /\ \A i \in 1..(Len(tokens) - 1) :
                  /\ tokens[i] = "Indent" => tokens[i + 1] = "Identifier"
                  /\ tokens[i] = "Dedent" =>
                        tokens[i + 1] \in {"Dedent", "Identifier", "None"}

\* an indent stack that is not empty, starts at 0 and increases strictly
WellFormedStack(indent_stack) ==
    /\ Len(indent_stack) >= 1
    /\ indent_stack[1] = 0
    /\ \A i \in 1..(Len(indent_stack) - 1) : indent_stack[i] < indent_stack[i + 1]

(* C28: before and after every call of next_token the indent stack is not    *)
(* empty, has 0 at its bottom and increases strictly from bottom to top; a   *)
(* call that returns Newline (for a newline, a blank, whitespace-only or     *)
(* comment-only line) leaves the stack as it was.                            *)
C28_IndentStack ==
    [][ phase = "lex" =>
            /\ WellFormedStack(lexer.indent_stack)
            /\ WellFormedStack(lexer'.indent_stack)
            /\ (AsksTokenizer /\ Inner.token \in {"Newline", "WhitespaceOnlyLine"}) =>
                  /\ Returned = "Newline"
                  /\ lexer'.indent_stack = lexer.indent_stack
            /\ Returned = "Newline" => lexer'.indent_stack = lexer.indent_stack ]_vars

\* a whitespace-only line has just been passed one level deep
C28_Witness ==
    /\ phase = "lex"
    /\ Count("None") = 0
    /\ Len(lexer.indent_stack) >= 2
    /\ Len(tokens) >= 2
    /\ tokens[Len(tokens)] = "Newline"
    /\ tokens[Len(tokens) - 1] = "Newline"
    /\ lexer.pos >= 2
    /\ program[lexer.pos - 1] = " "

----------------------------------------------------------------------------
(* SpecLayout: StorageLayout::from_program on a program of Const items,      *)
(* Struct items and functions; alloc is then called on the layout again.     *)

MaxStmts == 2

MaxAllocs == 1

Uint256 == <<"Uint256">>

Map == <<"Map", <<"Uint256">>, <<"Uint256">>>>

Const(name, ty) == <<"Const", name, ty, Number(1)>>

Field(name, ty) == <<name, ty>>

Struct(name, fields) == <<"Struct", name, fields>>

Index(base, key) == <<"Index", base, key>>

Member(base, field) == <<"Member", base, field>>

Assign(target, value) == <<"Assign", target, value>>

\* the Const and Struct items of a program, in source order
Declarations ==
    { <<>>,
      << Const("a", Uint256) >>,
      << Const("a", Map) >>,
      << Const("a", Uint256), Const("b", Uint256) >>,
      << Const("a", Uint256), Const("a", Map) >>,
      << Const("msg", Uint256) >>,
      << Struct("S", << Field("f", Uint256), Field("c", Map) >>) >>,
      << Struct("S", << Field("f", Uint256) >>), Const("a", Uint256) >>,
      << Const("c", Uint256), Struct("S", << Field("self", Uint256) >>) >> }

\* the statements of def f(p: uint256)
Statements ==
    { \* c = 1
      Assign(Identifier("c"), Number(1)),
      \* c[p] = 1
      Assign(Index(Identifier("c"), Identifier("p")), Number(1)),
      \* a[0] = 1
      Assign(Index(Identifier("a"), Number(0)), Number(1)),
      \* p[0] = 1
      Assign(Index(Identifier("p"), Number(0)), Number(1)),
      \* let c = d[p]
      <<"Let", "c", Index(Identifier("d"), Identifier("p"))>>,
      \* msg.sender = 1
      Assign(Member(Identifier("msg"), "sender"), Number(1)),
      \* msg[0] = 1
      Assign(Index(Identifier("msg"), Number(0)), Number(1)),
      \* c.f = 1
      Assign(Member(Identifier("c"), "f"), Number(1)),
      \* if p: let d = 1
      <<"If", Identifier("p"), << <<"Let", "d", Number(1)>> >> >>,
      \* while p: let d = 1
      <<"While", Identifier("p"), << <<"Let", "d", Number(1)>> >> >>,
      \* d = 1
      Assign(Identifier("d"), Number(1)),
      \* for c in p: c[0] = e
      <<"For", "c", Identifier("p"),
        << Assign(Index(Identifier("c"), Number(0)), Identifier("e")) >> >> }

Bodies == UNION { [1..n -> Statements] : n \in 0..MaxStmts }

\* def f(p: uint256): body, alone or followed by def g(): c[0] = 1
FunctionLists ==
    UNION { { << Function("f", <<Parameter("p")>>, body) >>,
              << Function("f", <<Parameter("p")>>, body),
                 Function("g", <<>>,
                          << Assign(Index(Identifier("c"), Number(0)), Number(1)) >>) >> }
            : body \in Bodies }

LayoutPrograms == { d \o f : d \in Declarations, f \in FunctionLists }

InitLayout ==
    /\ phase = "items"
    /\ program \in LayoutPrograms
    /\ storage_layout = EmptyLayout
    /\ verify_errors = <<>>
    /\ gas_report = NoReport
    /\ type_errors = <<>>
    /\ module = [functions |-> <<>>, constructor_ops |-> <<>>, label_count |-> 0]
    /\ code = <<>>
    /\ calldata = <<>>
    /\ pc = 0
    /\ stack = <<>>
    /\ storage = EmptyMap
    /\ memory = EmptyMap
    /\ status = "idle"
    /\ executed = {}
    /\ stack0 = <<>>
    /\ storage0 = EmptyMap
    /\ passes = <<>>
    /\ guard_slot = -1
    /\ lexer = NewLexer
    /\ tokens = <<>>

\* StorageLayout::from_program(program)
FromProgram ==
    /\ phase = "items"
    /\ phase' = "layout"
    /\ storage_layout' = from_program(program)
    /\ passes' = <<"from_program">>
    /\ UNCHANGED <<program, module, code, calldata, pc, stack, storage, memory, status,
                   executed, stack0, storage0, guard_slot, lexer, tokens, verify_errors,
                   gas_report, type_errors>>

\* one more call of alloc on the layout
Alloc ==
    /\ phase = "layout"
    /\ Len(passes) <= MaxAllocs
    /\ \E name \in {"a", "z"}, kind \in {"Value", "Mapping"} :
          storage_layout' = alloc(storage_layout, name, kind)
    /\ passes' = Append(passes, "alloc")
    /\ UNCHANGED <<phase, program, module, code, calldata, pc, stack, storage, memory,
                   status, executed, stack0, storage0, guard_slot, lexer, tokens,
                   verify_errors,
                   gas_report, type_errors>>

NextLayout == FromProgram \/ Alloc

SpecLayout == InitLayout /\ [][NextLayout]_vars

Entries == storage_layout.slots

ConstItems == SelectSeq(program, LAMBDA item : item[1] = "Const")

(* C14: slot_count() is the number of entries, the slots of the entries are
   exactly 0 .. slot_count()-1, no two entries share a slot and no name has
   two entries; this holds of the layout from_program builds and after every
   call of alloc. *)
C14_LayoutInvariant ==
    /\ slot_count(storage_layout) = Len(Entries)
    /\ {Entries[i].slot : i \in 1..Len(Entries)} = 0..(slot_count(storage_layout) - 1)
    /\ \A i, j \in 1..Len(Entries) :
          i # j => Entries[i].name # Entries[j].name /\ Entries[i].slot # Entries[j].slot

\* a layout of three entries or more, built from a program that names a Const
\* twice, on which alloc has been called again
C14_Witness ==
    /\ phase = "layout"
    /\ Len(passes) > 1
    /\ Len(Entries) >= 3
    /\ \E i, j \in 1..Len(ConstItems) : i # j /\ ConstItems[i][2] = ConstItems[j][2]

\* from_program has returned and alloc has not been called since
Built == phase = "layout" /\ passes = <<"from_program">>

ConstNames == [i \in 1..Len(ConstItems) |-> ConstItems[i][2]]

FieldNames ==
    UNION { {program[i][3][f][1] : f \in 1..Len(program[i][3])}
            : i \in {n \in 1..Len(program) : program[n][1] = "Struct"} }

DeclaredNames == {ConstNames[i] : i \in 1..Len(ConstNames)} \cup FieldNames

\* the entries of the state variables found in function bodies, in the order
\* in which alloc made them
Discovered == SelectSeq(Entries, LAMBDA e : e.name \notin DeclaredNames)

\* Const item i is the first Const item of its name
FirstOfName(i) == \A j \in 1..(i - 1) : ConstNames[j] # ConstNames[i]

(* C15 as stated: with k Const items, the i-th Const item (from 0) has slot i
   and the j-th state variable discovered in function bodies has slot k + j. *)
C15_SequentialSlots ==
    Built =>
        /\ \A i \in 1..Len(ConstItems) :
              /\ contains_key(storage_layout, ConstNames[i])
              /\ get(storage_layout, ConstNames[i]).slot = i - 1
        /\ \A j \in 1..Len(Discovered) : Discovered[j].slot = Len(ConstItems) + j - 1

(* C15 amended: the i-th distinct name among the Const items, in order of
   first occurrence, has slot i, and with n distinct names among the Const
   items and the Struct fields the j-th state variable discovered in function
   bodies has slot n + j. *)
C15_SlotsAfterDeclaredNames ==
    Built =>
        /\ \A i \in 1..Len(ConstItems) :
              /\ contains_key(storage_layout, ConstNames[i])
              /\ FirstOfName(i) =>
                    get(storage_layout, ConstNames[i]).slot
                        = Cardinality({j \in 1..(i - 1) : FirstOfName(j)})
        /\ \A j \in 1..Len(Discovered) :
              Discovered[j].slot = Cardinality(DeclaredNames) + j - 1

\* a program with Struct fields and two state variables found in its bodies
C15_Witness ==
    /\ Built
    /\ FieldNames # {}
    /\ Len(ConstItems) > 0
    /\ Len(Discovered) >= 2

FunctionItems == SelectSeq(program, LAMBDA item : item[1] = "Function")

Builtins == {"msg", "block", "tx", "self"}

RECURSIVE IndexedTargets(_, _, _)
\* the names x of the assignments x[k] = v in stmts[i..] and the blocks
\* nested in them, added to acc
IndexedTargets(stmts, i, acc) ==
    IF i > Len(stmts) \/ Cardinality(acc) < 0 THEN acc
    ELSE LET s == stmts[i]
         IN  IndexedTargets(stmts, i + 1,
                CASE s[1] = "Assign" ->
                        IF s[2][1] = "Index" /\ s[2][2][1] = "Identifier"
                        THEN acc \cup {s[2][2][2]} ELSE acc
                  [] s[1] \in {"If", "While"} -> IndexedTargets(s[3], 1, acc)
                  [] s[1] = "IfElse" ->
                        IndexedTargets(s[4], 1, IndexedTargets(s[3], 1, acc))
                  [] s[1] = "For" -> IndexedTargets(s[4], 1, acc)
                  [] OTHER -> acc)

RECURSIVE BoundNames(_, _, _)
\* the names bound by let or for in stmts[i..] and the blocks nested in them
BoundNames(stmts, i, acc) ==
    IF i > Len(stmts) \/ Cardinality(acc) < 0 THEN acc
    ELSE LET s == stmts[i]
         IN  BoundNames(stmts, i + 1,
                CASE s[1] \in {"Let", "LetNone"} -> acc \cup {s[2]}
                  [] s[1] \in {"If", "While"} -> BoundNames(s[3], 1, acc)
                  [] s[1] = "IfElse" -> BoundNames(s[4], 1, BoundNames(s[3], 1, acc))
                  [] s[1] = "For" -> BoundNames(s[4], 1, acc \cup {s[2]})
                  [] OTHER -> acc)

RECURSIVE PlainTargets(_, _, _)
\* the names x of the assignments x = v and x.f = v
PlainTargets(stmts, i, acc) ==
    IF i > Len(stmts) \/ Cardinality(acc) < 0 THEN acc
    ELSE LET s == stmts[i]
         IN  PlainTargets(stmts, i + 1,
                CASE s[1] = "Assign" ->
                        IF s[2][1] = "Identifier" THEN acc \cup {s[2][2]}
                        ELSE IF s[2][1] = "Member" /\ s[2][2][1] = "Identifier"
                        THEN acc \cup {s[2][2][2]} ELSE acc
                  [] s[1] \in {"If", "While"} -> PlainTargets(s[3], 1, acc)
                  [] s[1] = "IfElse" -> PlainTargets(s[4], 1, PlainTargets(s[3], 1, acc))
                  [] s[1] = "For" -> PlainTargets(s[4], 1, acc)
                  [] OTHER -> acc)

\* the names that are local somewhere in function n: its parameters and what
\* its body binds
LocalNames(n) ==
    {FunctionItems[n][3][q][1] : q \in 1..Len(FunctionItems[n][3])}
        \cup BoundNames(FunctionItems[n][4], 1, {})

\* the names of the Const items and Struct fields whose type is not a Map
ValueDeclared ==
    {ConstItems[i][2] : i \in {n \in 1..Len(ConstItems) : ConstItems[n][3][1] # "Map"}}
    \cup UNION { {program[i][3][f][1] :
                    f \in {q \in 1..Len(program[i][3]) : program[i][3][q][2][1] # "Map"}}
                 : i \in {n \in 1..Len(program) : program[n][1] = "Struct"} }

PlainlyAssigned ==
    UNION {PlainTargets(FunctionItems[n][4], 1, {}) : n \in 1..Len(FunctionItems)}

IsMapping(x) ==
    contains_key(storage_layout, x) /\ get(storage_layout, x).kind = "Mapping"

C17_NoBuiltinEntry ==
    Built => \A b \in Builtins : ~contains_key(storage_layout, b)

\* the names let-bound in the block of an if or a while, or in either block
\* of an if with else
BlockLets(s) ==
    LET lets(stmts) == {stmts[k][2] : k \in {q \in 1..Len(stmts) :
                                                stmts[q][1] \in {"Let", "LetNone"}}}
    IN  CASE s[1] \in {"If", "While"} -> lets(s[3])
          [] s[1] = "IfElse" -> lets(s[3]) \cup lets(s[4])
          [] OTHER -> {}

\* the names let-bound by the statements of the body before statement j
LetsBefore(body, j) ==
    {body[k][2] : k \in {q \in 1..(j - 1) : body[q][1] \in {"Let", "LetNone"}}}

\* statement j of function n assigns x = v, x let-bound in the block of the
\* earlier statement i and neither a parameter, a builtin nor let-bound in
\* the body before j
AssignsAfterBlock(n, i, j) ==
    LET body == FunctionItems[n][4]
    IN  /\ i < j
        /\ body[j][1] = "Assign"
        /\ body[j][2][1] = "Identifier"
        /\ body[j][2][2] \in BlockLets(body[i])
        /\ body[j][2][2] \notin
              {FunctionItems[n][3][q][1] : q \in 1..Len(FunctionItems[n][3])}
              \cup Builtins \cup LetsBefore(body, j)

----------------------------------------------------------------------------
(* SpecVerify: a program is lowered; harden and add_reentrancy_guard may     *)
(* follow, each once and in either order, or jump ops are injected into the  *)
(* lowered module; verify_module is then called.                             *)

MaxInjected == 2

\* the programs that are lowered and verified
VerifyPrograms ==
    Programs \cup
    { \* def t(x: uint256): while x: a = a + 1      def u(): if a: return 1 else: return 2
      << Function("t", <<Parameter("x")>>,
                  << <<"While", Identifier("x"),
                       << Assign(Identifier("a"),
                                 Binary("Add", Identifier("a"), Number(1))) >> >> >>),
         Function("u", <<>>,
                  << <<"IfElse", Identifier("a"), << <<"Return", Number(1)>> >>,
                       << <<"Return", Number(2)>> >> >> >>) >>,
      \* const a = 1      def init(): if a: a = 2      def t(): require a; return a * a
      << Const("a", Uint256),
         Function("init", <<>>,
                  << <<"If", Identifier("a"), << Assign(Identifier("a"), Number(2)) >> >> >>),
         Function("t", <<>>,
                  << <<"Require", Identifier("a")>>,
                     <<"Return", Binary("Mul", Identifier("a"), Identifier("a"))>> >>) >>,
      \* def t(x: uint256): if x: (while x: require x) ; return x - 1
      << Function("t", <<Parameter("x")>>,
                  << <<"If", Identifier("x"),
                       << <<"While", Identifier("x"),
                            << <<"Require", Identifier("x")>> >> >> >> >>,
                     <<"Return", Binary("Sub", Identifier("x"), Number(1))>> >>) >> }

InitVerify ==
    /\ phase = "source"
    /\ program \in VerifyPrograms
    /\ module = [functions |-> <<>>, constructor_ops |-> <<>>, label_count |-> 0]
    /\ verify_errors = <<>>
    /\ gas_report = NoReport
    /\ type_errors = <<>>
    /\ storage_layout = EmptyLayout
    /\ code = <<>>
    /\ calldata = <<>>
    /\ pc = 0
    /\ stack = <<>>
    /\ storage = EmptyMap
    /\ memory = EmptyMap
    /\ status = "idle"
    /\ executed = {}
    /\ stack0 = <<>>
    /\ storage0 = EmptyMap
    /\ passes = <<>>
    /\ guard_slot = -1
    /\ lexer = NewLexer
    /\ tokens = <<>>

Applied(pass) == \E i \in 1..Len(passes) : passes[i] = pass

\* lower_program(program)
LowerProgram ==
    /\ phase = "source"
    /\ phase' = "ir"
    /\ module' = lower_program(program)
    /\ passes' = <<"lower">>
    /\ UNCHANGED <<program, code, calldata, pc, stack, storage, memory, status, executed,
                   stack0, storage0, guard_slot, lexer, tokens, storage_layout,
                   verify_errors,
                   gas_report, type_errors>>

\* harden(module)
HardenModule ==
    /\ phase = "ir"
    /\ ~Applied("harden") /\ ~Applied("inject")
    /\ module' = harden(module)
    /\ passes' = Append(passes, "harden")
    /\ UNCHANGED <<phase, program, code, calldata, pc, stack, storage, memory, status,
                   executed, stack0, storage0, guard_slot, lexer, tokens, storage_layout,
                   verify_errors,
                   gas_report, type_errors>>

\* add_reentrancy_guard(module, s)
GuardModule ==
    /\ phase = "ir"
    /\ ~Applied("guard") /\ ~Applied("inject")
    /\ \E s \in LockSlots :
          /\ module' = add_reentrancy_guard(module, s)
          /\ guard_slot' = s
    /\ passes' = Append(passes, "guard")
    /\ UNCHANGED <<phase, program, code, calldata, pc, stack, storage, memory, status,
                   executed, stack0, storage0, lexer, tokens, storage_layout,
                   verify_errors,
                   gas_report, type_errors>>

\* ops with op put in front of it or behind it
Injected(ops, op, front) == IF front THEN <<op>> \o ops ELSE Append(ops, op)

\* a Jump or JumpI is put in front of the first function's ops or of the
\* constructor's, or a JumpDest in front of or behind them; the label is 0 or
\* one that no op of the module has
InjectOp ==
    /\ phase = "ir"
    /\ passes = <<"lower">> \/ Applied("inject")
    /\ Cardinality({i \in 1..Len(passes) : passes[i] = "inject"}) < MaxInjected
    /\ \E l \in {0, module.label_count + 1}, front \in BOOLEAN,
          op \in {"Jump", "JumpI", "JumpDest"}, constructor \in BOOLEAN :
          /\ front \/ op = "JumpDest"
          /\ constructor \/ Len(module.functions) > 0
          /\ module' =
                IF constructor
                THEN [module EXCEPT !.constructor_ops =
                        Injected(@, [op |-> op, n |-> l, data |-> <<>>], front)]
                ELSE [module EXCEPT !.functions[1].ops =
                        Injected(@, [op |-> op, n |-> l, data |-> <<>>], front)]
    /\ passes' = Append(passes, "inject")
    /\ UNCHANGED <<phase, program, code, calldata, pc, stack, storage, memory, status,
                   executed, stack0, storage0, guard_slot, lexer, tokens, storage_layout,
                   verify_errors,
                   gas_report, type_errors>>

\* verify_module(module)
VerifyModule ==
    /\ phase = "ir"
    /\ phase' = "verified"
    /\ verify_errors' = verify_module(module)
    /\ passes' = Append(passes, "verify")
    /\ UNCHANGED <<program, module, code, calldata, pc, stack, storage, memory, status,
                   executed, stack0, storage0, guard_slot, lexer, tokens, storage_layout,
                   gas_report, type_errors>>

NextVerify == LowerProgram \/ HardenModule \/ GuardModule \/ InjectOp \/ VerifyModule

SpecVerify == InitVerify /\ [][NextVerify]_vars

\* the op lists of the module: every function's, then the constructor's
OpLists ==
    [i \in 1..(Len(module.functions) + 1) |->
        IF i <= Len(module.functions) THEN module.functions[i].ops
        ELSE module.constructor_ops]

\* the positions of the ops named op in list i
Positions(i, op) == {k \in 1..Len(OpLists[i]) : OpLists[i][k].op = op}

\* the positions in list i of the JumpDests of label l
Dests(i, l) == {k \in Positions(i, "JumpDest") : OpLists[i][k].n = l}

(* C18: verify_module of a lowered module, and of one that harden or
   add_reentrancy_guard or both have rewritten, is empty; in each op list
   every Jump and JumpI label has exactly one JumpDest in that list. *)
C18_WellLoweredVerifies ==
    ~Applied("inject") =>
        /\ phase = "verified" => verify_errors = <<>>
        /\ \A i \in 1..Len(OpLists) :
              \A k \in Positions(i, "Jump") \cup Positions(i, "JumpI") :
                  Cardinality(Dests(i, OpLists[i][k].n)) = 1

\* a hardened and guarded module with jumps in a function and in the
\* constructor has been verified
C18_Witness ==
    /\ phase = "verified"
    /\ Applied("harden") /\ Applied("guard")
    /\ \A i \in 1..Len(OpLists) : Positions(i, "Jump") \cup Positions(i, "JumpI") # {}
    /\ \E i \in 1..Len(OpLists) : Positions(i, "Jump") # {}

(* C19: in the module lower_program returns, and after harden and
   add_reentrancy_guard on it, no two JumpDests of the module, functions and
   constructor together, have the same label, and the label of every Jump,
   JumpI and JumpDest is below module.label_count. *)
C19_FreshLabels ==
    ~Applied("inject") =>
        /\ \A i, j \in 1..Len(OpLists) :
              \A k \in Positions(i, "JumpDest"), q \in Positions(j, "JumpDest") :
                  <<i, k>> # <<j, q>> => OpLists[i][k].n # OpLists[j][q].n
        /\ \A i \in 1..Len(OpLists) :
              \A k \in Positions(i, "Jump") \cup Positions(i, "JumpI")
                        \cup Positions(i, "JumpDest") :
                  OpLists[i][k].n < module.label_count

\* a module of two functions or more whose lowering, hardening and guard have
\* each allocated labels
C19_Witness ==
    /\ phase = "ir"
    /\ Applied("harden") /\ Applied("guard")
    /\ Len(module.functions) >= 2
    /\ lower_program(program).label_count > Len(module.functions)
    /\ module.label_count
          > lower_program(program).label_count + Len(module.functions)

\* list and position of every op named op
AllPositions(op) == UNION { {<<i, k>> : k \in Positions(i, op)} : i \in 1..Len(OpLists) }

LabelAt(ik) == OpLists[ik[1]][ik[2]].n

\* the Jump (or JumpI) ops whose label has no JumpDest in their own list
Orphans(op) == {ik \in AllPositions(op) : Dests(ik[1], LabelAt(ik)) = {}}

\* the JumpDests that have an earlier JumpDest of the same label in their list
Repeated ==
    {ik \in AllPositions("JumpDest") : \E q \in Dests(ik[1], LabelAt(ik)) : q < ik[2]}

\* how often verify_module has reported e
Reported(e) == Cardinality({j \in 1..Len(verify_errors) : verify_errors[j] = e})

ReportedLabels ==
    {LabelAt(ik) : ik \in AllPositions("Jump") \cup AllPositions("JumpI")
                            \cup AllPositions("JumpDest")}
        \cup {verify_errors[j][2] : j \in 1..Len(verify_errors)}

(* C20: verify_module reports one OrphanJump(l) per Jump(l) and one
   OrphanJumpI(l) per JumpI(l) whose label has no JumpDest in the same op
   list, one DuplicateLabel(l) per JumpDest(l) after the first of that label
   in its list, and nothing else; a reference to a JumpDest further on in the
   list is not reported. *)
C20_ExactErrors ==
    phase = "verified" =>
        /\ \A j \in 1..Len(verify_errors) :
              verify_errors[j][1] \in {"OrphanJump", "OrphanJumpI", "DuplicateLabel"}
        /\ \A l \in ReportedLabels :
              /\ Reported(<<"OrphanJump", l>>)
                    = Cardinality({ik \in Orphans("Jump") : LabelAt(ik) = l})
              /\ Reported(<<"OrphanJumpI", l>>)
                    = Cardinality({ik \in Orphans("JumpI") : LabelAt(ik) = l})
              /\ Reported(<<"DuplicateLabel", l>>)
                    = Cardinality({ik \in Repeated : LabelAt(ik) = l})

\* a module with a repeated JumpDest, an orphan reference and a reference to a
\* JumpDest further on in its list has been verified
C20_Witness ==
    /\ phase = "verified"
    /\ Repeated # {}
    /\ Orphans("Jump") \cup Orphans("JumpI") # {}
    /\ \E ik \in AllPositions("Jump") \cup AllPositions("JumpI") :
          \E q \in Dests(ik[1], LabelAt(ik)) : q > ik[2]
    /\ Len(verify_errors) = 2

----------------------------------------------------------------------------
(* Gas estimator (gas.rs) *)

DEPLOY_BASE == 32000

DISPATCH_PER_BRANCH == 22

\* op_gas with the cost of Log taken as the base alone
op_gas_flat_log(op) ==
    CASE op.op \in {"Push", "Dup", "Swap", "Add", "Sub"} -> 3
      [] op.op = "Pop" -> 2
      [] op.op \in {"Mul", "Div", "SDiv", "Mod"} -> 5
      [] op.op = "Exp" -> 10
      [] op.op \in {"Lt", "Gt", "Eq", "IsZero", "And", "Or", "Not", "Shr"} -> 3
      [] op.op \in {"MLoad", "MStore"} -> 3
      [] op.op = "SLoad" -> 2100
      [] op.op = "SStore" -> 5000
      [] op.op = "Jump" -> 8
      [] op.op = "JumpI" -> 10
      [] op.op = "JumpDest" -> 1
      [] op.op \in {"Caller", "CallValue", "CallDataSize"} -> 2
      [] op.op = "CallDataLoad" -> 3
      [] op.op = "Keccak256" -> 30
      [] op.op \in {"Return", "Revert", "Stop", "Invalid"} -> 0
      [] op.op = "Log" -> 375

\* op_gas
op_gas(op) ==
    CASE op.op \in {"Push", "Dup", "Swap", "Add", "Sub"} -> 3
      [] op.op = "Pop" -> 2
      [] op.op \in {"Mul", "Div", "SDiv", "Mod"} -> 5
      [] op.op = "Exp" -> 10
      [] op.op \in {"Lt", "Gt", "Eq", "IsZero", "And", "Or", "Not", "Shr"} -> 3
      [] op.op \in {"MLoad", "MStore"} -> 3
      [] op.op = "SLoad" -> 2100
      [] op.op = "SStore" -> 5000
      [] op.op = "Jump" -> 8
      [] op.op = "JumpI" -> 10
      [] op.op = "JumpDest" -> 1
      [] op.op \in {"Caller", "CallValue", "CallDataSize"} -> 2
      [] op.op = "CallDataLoad" -> 3
      [] op.op = "Keccak256" -> 30
      [] op.op \in {"Return", "Revert", "Stop", "Invalid"} -> 0
      [] op.op = "Log" -> 375 + op.n * 375

RECURSIVE estimate_from(_, _, _)
\* the loop of estimate_ops over ops[i..]
estimate_from(ops, i, total) ==
    IF i > Len(ops) \/ total < 0 THEN total
    ELSE estimate_from(ops, i + 1, total + op_gas(ops[i]))

\* estimate_ops
estimate_ops(ops) == estimate_from(ops, 1, 0)

\* GasReport::from_module
GasReport_from_module(m) ==
    LET dispatch_overhead == Len(m.functions) * DISPATCH_PER_BRANCH
    IN  [functions |->
            [i \in 1..Len(m.functions) |->
                [name |-> m.functions[i].name,
                 selector |-> m.functions[i].selector,
                 estimated_gas |-> estimate_ops(m.functions[i].ops) + dispatch_overhead]],
         constructor_gas |-> estimate_ops(m.constructor_ops) + DEPLOY_BASE,
         dispatch_overhead |-> dispatch_overhead]

----------------------------------------------------------------------------
(* SpecOps: a hand-built IrModule is given to the assembler (emit_op over    *)
(* its constructor ops) and to the gas estimator.                            *)

\* longest op list over SomeOps
MaxOps == 2

\* most functions in the module
MaxFunctions == 2

\* longest data of a Push
MaxPushLen == 33

\* every IrOp variant, with a few operands for those that carry one
AllOps ==
    { Op(name) : name \in {"Pop", "Add", "Sub", "Mul", "Div", "SDiv", "Mod", "Exp", "Lt",
                           "Gt", "Eq", "IsZero", "And", "Or", "Not", "Shr", "MLoad",
                           "MStore", "SLoad", "SStore", "Caller", "CallValue",
                           "CallDataLoad", "CallDataSize", "Keccak256", "Return",
                           "Revert", "Stop", "Invalid"} }
    \cup { Log(k) : k \in 0..4 }
    \cup { Dup(1), Swap(2), Jump(0), JumpI(1), JumpDest(0) }

SomeOps == { Push(<<1>>), Op("SLoad"), Op("SStore"), Log(1), JumpDest(0), Op("Stop") }

RECURSIVE OpListsOf(_)
\* the lists over SomeOps of length k
OpListsOf(k) ==
    IF k = 0 THEN {<<>>}
    ELSE { Append(l, o) : l \in OpListsOf(k - 1), o \in SomeOps }

PushLists == { <<Push(Bytes(n, seed))>> : n \in 0..MaxPushLen, seed \in {0, 90} }

OpSequences ==
    UNION { OpListsOf(k) : k \in 0..MaxOps } \cup { <<o>> : o \in AllOps } \cup PushLists

\* function j of the module built from ops: the ops from the j-th on
function_of(ops, j) ==
    [name |-> Names[j], selector |-> <<0, 0, 0, j>>, ops |-> SubSeq(ops, j, Len(ops))]

InitOps ==
    /\ phase = "ops"
    /\ \E ops \in OpSequences, nf \in 0..MaxFunctions :
          module = [functions |-> [j \in 1..nf |-> function_of(ops, j)],
                    constructor_ops |-> ops, label_count |-> 0]
    /\ program = <<>>
    /\ code = <<>>
    /\ calldata = <<>>
    /\ pc = 0
    /\ stack = <<>>
    /\ storage = EmptyMap
    /\ memory = EmptyMap
    /\ status = "idle"
    /\ executed = {}
    /\ stack0 = <<>>
    /\ storage0 = EmptyMap
    /\ passes = <<>>
    /\ guard_slot = -1
    /\ lexer = NewLexer
    /\ tokens = <<>>
    /\ storage_layout = EmptyLayout
    /\ verify_errors = <<>>
    /\ gas_report = NoReport
    /\ type_errors = <<>>

\* the debug_assert! of push_data
push_data_assertion(data) == Len(data) > 0 /\ Len(data) <= 32

\* Emitter::new, emit_op for every constructor op, into_bytes.  A debug build
\* panics at a Push whose data fails the assertion of push_data; a release
\* build compiles the assertion away.
EmitOps ==
    /\ phase = "ops"
    /\ phase' = "emitted"
    /\ \E build \in {"debug", "release"} :
          IF /\ build = "debug"
             /\ \E i \in 1..Len(module.constructor_ops) :
                   /\ module.constructor_ops[i].op = "Push"
                   /\ ~push_data_assertion(module.constructor_ops[i].data)
          THEN /\ status' = "panic"
               /\ code' = code
          ELSE /\ status' = status
               /\ code' = into_bytes(emit_ops(NewEmitter, module.constructor_ops, 1))
    /\ passes' = Append(passes, "emit")
    /\ UNCHANGED <<program, module, calldata, pc, stack, storage, memory, executed,
                   stack0, storage0, guard_slot, lexer, tokens, storage_layout,
                   verify_errors, gas_report, type_errors>>

\* GasReport::from_module(module)
Report ==
    /\ phase = "ops"
    /\ phase' = "reported"
    /\ gas_report' = GasReport_from_module(module)
    /\ passes' = Append(passes, "from_module")
    /\ UNCHANGED <<program, module, code, calldata, pc, stack, storage, memory, status,
                   executed, stack0, storage0, guard_slot, lexer, tokens, storage_layout,
                   verify_errors, type_errors>>

NextOps == EmitOps \/ Report

SpecOps == InitOps /\ [][NextOps]_vars

\* the module holds one op, a Push, as its constructor ops
SinglePush ==
    /\ Len(module.constructor_ops) = 1
    /\ module.constructor_ops[1].op = "Push"

PushData == module.constructor_ops[1].data

(* C21: Push(data) with 1 <= n <= 32 data bytes is assembled as the byte     *)
(* 0x5f + n followed by the n bytes, and Push of empty data as the two bytes *)
(* 0x60 0x00.                                                                *)
C21_PushEncoding ==
    (phase = "emitted" /\ SinglePush /\ Len(PushData) <= 32) =>
        /\ status # "panic"
        /\ code = IF PushData = <<>> THEN <<96, 0>>
                  ELSE <<95 + Len(PushData)>> \o PushData

\* the part of C21 that holds of the code: data of 1 to 32 bytes
C21_NonEmptyPushEncoding ==
    (phase = "emitted" /\ SinglePush /\ Len(PushData) \in 1..32) =>
        /\ status # "panic"
        /\ code = <<95 + Len(PushData)>> \o PushData

\* what the claim's table says of one op
TableCost(op) ==
    CASE op.op = "Push" -> 3
      [] op.op \in {"Pop", "Caller", "CallValue", "CallDataSize"} -> 2
      [] op.op \in {"Dup", "Swap", "Add", "Sub", "Lt", "Gt", "Eq", "IsZero", "And", "Or",
                    "Not", "Shr", "MLoad", "MStore", "CallDataLoad"} -> 3
      [] op.op \in {"Mul", "Div", "SDiv", "Mod"} -> 5
      [] op.op = "Exp" -> 10
      [] op.op = "Keccak256" -> 30
      [] op.op = "SLoad" -> 2100
      [] op.op = "SStore" -> 5000
      [] op.op = "Jump" -> 8
      [] op.op = "JumpI" -> 10
      [] op.op = "JumpDest" -> 1
      [] op.op = "Log" -> 375 + 375 * op.n
      [] op.op \in {"Return", "Revert", "Stop", "Invalid"} -> 0

RECURSIVE TableSum(_)
TableSum(ops) == IF ops = <<>> THEN 0 ELSE TableCost(Head(ops)) + TableSum(Tail(ops))

(* C22: the report gives every function the table's sum over its ops plus    *)
(* 22 times the number of functions, a dispatch overhead of 22 times the     *)
(* number of functions, and a constructor gas of the table's sum over the    *)
(* constructor ops plus 32000.                                               *)
C22_GasReport ==
    phase = "reported" =>
        /\ Len(gas_report.functions) = Len(module.functions)
        /\ \A i \in 1..Len(module.functions) :
              gas_report.functions[i].estimated_gas =
                  TableSum(module.functions[i].ops) + 22 * Len(module.functions)
        /\ gas_report.dispatch_overhead = 22 * Len(module.functions)
        /\ gas_report.constructor_gas = TableSum(module.constructor_ops) + 32000

\* a report on two functions of which the first logs with topics and stores
C22_Witness ==
    /\ phase = "reported"
    /\ Len(module.functions) = 2
    /\ \E k \in 1..Len(module.functions[1].ops) :
          /\ module.functions[1].ops[k].op = "Log"
          /\ module.functions[1].ops[k].n > 0
    /\ \E k \in 1..Len(module.functions[2].ops) : module.functions[2].ops[k].op = "SStore"
    /\ gas_report.functions[2].estimated_gas = 5044

----------------------------------------------------------------------------
(* Type checker (typer.rs).  Option<Type> is a Type or NoType; a TypeError   *)
(* is <<variant, fields...>>.  A Let may carry its declared type as a fourth *)
(* component (third for a Let without value) and a Function its return type *)
(* as a fifth.                                                               *)

NoType == <<"None">>

\* CheckCtx::new
NewCheckCtx ==
    [globals |-> EmptyOffsets, scopes |-> <<>>, errors |-> <<>>, current_return |-> NoType]

\* CheckCtx::push_scope
push_scope(ctx) == [ctx EXCEPT !.scopes = Append(@, EmptyOffsets)]

\* CheckCtx::pop_scope
pop_scope(ctx) ==
    IF ctx.scopes = <<>> THEN ctx
    ELSE [ctx EXCEPT !.scopes = SubSeq(@, 1, Len(@) - 1)]

\* CheckCtx::define
define(ctx, name, ty) ==
    IF ctx.scopes = <<>> THEN ctx
    ELSE [ctx EXCEPT !.scopes[Len(ctx.scopes)] = Insert(@, name, ty)]

\* CheckCtx::lookup: the innermost scope that has the name, then the globals
lookup(ctx, name) ==
    IF \E k \in 1..Len(ctx.scopes) : name \in DOMAIN ctx.scopes[k]
    THEN ctx.scopes[CHOOSE k \in 1..Len(ctx.scopes) :
                        /\ name \in DOMAIN ctx.scopes[k]
                        /\ \A j \in (k + 1)..Len(ctx.scopes) :
                              name \notin DOMAIN ctx.scopes[j]][name]
    ELSE IF name \in DOMAIN ctx.globals THEN ctx.globals[name]
    ELSE NoType

\* CheckCtx::err
err(ctx, e) == [ctx EXCEPT !.errors = Append(@, e)]

\* is_numeric
is_numeric(ty) == ty[1] \in {"Uint256", "Uint8", "Int256"}

\* wider_numeric
wider_numeric(a, b) ==
    IF a[1] = "Uint256" \/ b[1] = "Uint256" THEN <<"Uint256">>
    ELSE IF a[1] = "Int256" \/ b[1] = "Int256" THEN <<"Int256">>
    ELSE a

\* types_compatible
types_compatible(expected, got) ==
    expected = got \/ (is_numeric(expected) /\ is_numeric(got))

RECURSIVE fmt_type(_)
\* fmt_type; the text of a Map is kept as its pieces
fmt_type(ty) ==
    CASE ty[1] = "Uint8"   -> "uint8"
      [] ty[1] = "Uint256" -> "uint256"
      [] ty[1] = "Int256"  -> "int256"
      [] ty[1] = "Bool"    -> "bool"
      [] ty[1] = "Address" -> "address"
      [] ty[1] = "Bytes"   -> "bytes"
      [] ty[1] = "String"  -> "string"
      [] ty[1] = "Map"     -> <<"Map<", fmt_type(ty[2]), ",", fmt_type(ty[3]), ">">>
      [] ty[1] = "Custom"  -> ty[2]

\* infer_binary_op; the result is [ty, ctx]
infer_binary_op(ctx, op, left, right) ==
    CASE op \in {"Add", "Sub", "Mul", "Div", "Mod", "Pow"} ->
            IF left # NoType /\ right # NoType
            THEN IF is_numeric(left) /\ is_numeric(right)
                 THEN [ty |-> wider_numeric(left, right), ctx |-> ctx]
                 ELSE [ty  |-> <<"Uint256">>,
                       ctx |-> err(ctx, <<"BinaryOp", op, fmt_type(left), fmt_type(right)>>)]
            ELSE [ty |-> <<"Uint256">>, ctx |-> ctx]
      [] op \in {"Equal", "NotEqual", "Less", "Greater", "LessEqual", "GreaterEqual"} ->
            [ty |-> <<"Bool">>, ctx |-> ctx]
      [] op \in {"And", "Or"} ->
            IF left # NoType /\ right # NoType /\ (left[1] # "Bool" \/ right[1] # "Bool")
            THEN [ty  |-> <<"Bool">>,
                  ctx |-> err(ctx, <<"BinaryOp", op, fmt_type(left), fmt_type(right)>>)]
            ELSE [ty |-> <<"Bool">>, ctx |-> ctx]

RECURSIVE infer_expression(_, _)
RECURSIVE infer_args(_, _, _)
\* infer_expression over args[i..], the types dropped
infer_args(ctx, args, i) ==
    IF i > Len(args) \/ Len(ctx.errors) < 0 THEN ctx
    ELSE infer_args(infer_expression(ctx, args[i]).ctx, args, i + 1)

\* infer_expression; the result is [ty, ctx]
infer_expression(ctx, expr) ==
    CASE expr[1] \in {"Number", "HexNumber"} -> [ty |-> <<"Uint256">>, ctx |-> ctx]
      [] expr[1] = "Bool"   -> [ty |-> <<"Bool">>, ctx |-> ctx]
      [] expr[1] = "String" -> [ty |-> <<"String">>, ctx |-> ctx]
      [] expr[1] = "Bytes"  -> [ty |-> <<"Bytes">>, ctx |-> ctx]
      [] expr[1] = "Identifier" ->
            IF is_builtin(expr[2]) THEN [ty |-> NoType, ctx |-> ctx]
            ELSE IF lookup(ctx, expr[2]) # NoType
            THEN [ty |-> lookup(ctx, expr[2]), ctx |-> ctx]
            ELSE [ty |-> NoType, ctx |-> err(ctx, <<"Undefined", expr[2]>>)]
      [] expr[1] = "Member" ->
            IF expr[2][1] = "Identifier" /\ expr[2][2] = "msg" /\ expr[3] = "sender"
            THEN [ty |-> <<"Address">>, ctx |-> ctx]
            ELSE IF /\ expr[2][1] = "Identifier"
                    /\ <<expr[2][2], expr[3]>> \in
                          {<<"msg", "value">>, <<"block", "timestamp">>, <<"block", "number">>}
            THEN [ty |-> <<"Uint256">>, ctx |-> ctx]
            ELSE [ty |-> NoType, ctx |-> infer_expression(ctx, expr[2]).ctx]
      [] expr[1] = "Index" ->
            LET base == infer_expression(ctx, expr[2])
                key  == infer_expression(base.ctx, expr[3])
            IN  [ty  |-> IF base.ty[1] = "Map" THEN base.ty[3] ELSE NoType,
                 ctx |-> key.ctx]
      [] expr[1] = "Binary" ->
            LET l == infer_expression(ctx, expr[3])
                r == infer_expression(l.ctx, expr[4])
            IN  infer_binary_op(r.ctx, expr[2], l.ty, r.ty)
      [] expr[1] = "Unary" ->
            LET t == infer_expression(ctx, expr[3])
            IN  [ty |-> IF expr[2] = "Not" THEN <<"Bool">> ELSE t.ty, ctx |-> t.ctx]
      [] expr[1] = "Call" ->
            [ty  |-> NoType,
             ctx |-> infer_args(infer_expression(ctx, expr[2]).ctx, expr[3], 1)]
      [] expr[1] = "StructInit" ->
            [ty |-> <<"Custom", expr[2]>>, ctx |-> ctx]

\* the condition of an if or a while: a known type other than bool is a Mismatch
check_condition(ctx, cond) ==
    LET c == infer_expression(ctx, cond)
    IN  IF c.ty # NoType /\ c.ty[1] # "Bool"
        THEN err(c.ctx, <<"Mismatch", "bool", fmt_type(c.ty)>>)
        ELSE c.ctx

RECURSIVE check_statement(_, _)
RECURSIVE check_block(_, _, _)
\* check_block from statement i on
check_block(ctx, stmts, i) ==
    IF i > Len(stmts) \/ Len(ctx.errors) < 0 THEN ctx
    ELSE check_block(check_statement(ctx, stmts[i]), stmts, i + 1)

\* check_statement
check_statement(ctx, stmt) ==
    CASE stmt[1] = "Let" ->
            LET val      == infer_expression(ctx, stmt[3])
                declared == IF Len(stmt) >= 4 THEN stmt[4] ELSE NoType
                c1 == IF /\ declared # NoType
                         /\ val.ty # NoType
                         /\ ~types_compatible(declared, val.ty)
                      THEN err(val.ctx, <<"Mismatch", fmt_type(declared), fmt_type(val.ty)>>)
                      ELSE val.ctx
                ty == IF declared # NoType THEN declared
                      ELSE IF val.ty # NoType THEN val.ty ELSE <<"Uint256">>
            IN  define(c1, stmt[2], ty)
      [] stmt[1] = "LetNone" ->
            define(ctx, stmt[2], IF Len(stmt) >= 3 THEN stmt[3] ELSE <<"Uint256">>)
      [] stmt[1] = "Assign" ->
            infer_expression(infer_expression(ctx, stmt[2]).ctx, stmt[3]).ctx
      [] stmt[1] = "Return" ->
            LET val == infer_expression(ctx, stmt[2])
            IN  IF /\ ctx.current_return # NoType
                   /\ val.ty # NoType
                   /\ ~types_compatible(ctx.current_return, val.ty)
                THEN err(val.ctx, <<"ReturnMismatch", fmt_type(ctx.current_return),
                                    fmt_type(val.ty)>>)
                ELSE val.ctx
      [] stmt[1] = "ReturnNone" -> ctx
      [] stmt[1] = "Require" ->
            LET c == infer_expression(ctx, stmt[2])
            IN  IF c.ty # NoType /\ c.ty[1] # "Bool"
                THEN err(c.ctx, <<"RequireBool", fmt_type(c.ty)>>)
                ELSE c.ctx
      [] stmt[1] = "If" -> check_block(check_condition(ctx, stmt[2]), stmt[3], 1)
      [] stmt[1] = "IfElse" ->
            check_block(check_block(check_condition(ctx, stmt[2]), stmt[3], 1), stmt[4], 1)
      [] stmt[1] = "For" ->
            pop_scope(check_block(define(push_scope(ctx), stmt[2], <<"Uint256">>),
                                  stmt[4], 1))
      [] stmt[1] = "While" -> check_block(check_condition(ctx, stmt[2]), stmt[3], 1)
      [] stmt[1] = "Emit" -> infer_args(ctx, stmt[3], 1)
      [] stmt[1] = "Expression" -> infer_expression(ctx, stmt[2]).ctx

RECURSIVE define_params(_, _, _)
\* the loop of check_function over the parameters
define_params(ctx, params, i) ==
    IF i > Len(params) \/ Len(ctx.scopes) < 0 THEN ctx
    ELSE define_params(define(ctx, params[i][1], params[i][2]), params, i + 1)

\* check_function up to the body: the scope of the parameters is open
enter_function(ctx, func) ==
    define_params([push_scope(ctx) EXCEPT
                      !.current_return = IF Len(func) >= 5 THEN func[5] ELSE NoType],
                  func[3], 1)

\* check_function
check_function(ctx, func) ==
    pop_scope([check_block(enter_function(ctx, func), func[4], 1) EXCEPT
                  !.current_return = NoType])

RECURSIVE const_globals(_, _, _)
\* the first loop of check_program: every Const by its declared type
const_globals(items, i, globals) ==
    IF i > Len(items) \/ Cardinality(DOMAIN globals) < 0 THEN globals
    ELSE const_globals(items, i + 1,
            IF items[i][1] = "Const" THEN Insert(globals, items[i][2], items[i][3])
            ELSE globals)

\* the second loop of check_program: every layout entry that is not a global
\* yet, a Mapping as Map<uint256,uint256> and a Value as uint256
layout_globals(layout, globals) ==
    [x \in DOMAIN globals \cup {layout.slots[i].name : i \in 1..Len(layout.slots)} |->
        IF x \in DOMAIN globals THEN globals[x]
        ELSE IF get(layout, x).kind = "Mapping"
        THEN <<"Map", <<"Uint256">>, <<"Uint256">>>>
        ELSE <<"Uint256">>]

RECURSIVE check_functions(_, _, _)
\* the third loop of check_program
check_functions(items, i, ctx) ==
    IF i > Len(items) \/ Len(ctx.errors) < 0 THEN ctx
    ELSE check_functions(items, i + 1,
            IF items[i][1] = "Function" THEN check_function(ctx, items[i]) ELSE ctx)

\* the context in which check_program checks the functions
program_ctx(items) ==
    [NewCheckCtx EXCEPT
        !.globals = layout_globals(from_program(items), const_globals(items, 1, EmptyOffsets))]

\* check_program
check_program(items) == check_functions(items, 1, program_ctx(items)).errors

----------------------------------------------------------------------------
(* SpecTyper: check_program over programs of one function f(p) whose single  *)
(* statement holds an index expression.                                      *)

\* deepest nesting of index expressions: a[k] is 1, a[k][k] is 2
MaxIndexDepth == 2

Bool == <<"Bool">>

\* what is indexed: the parameter, a constant, a discovered or unknown name,
\* a literal, a member of msg
IndexBases ==
    { Identifier("p"), Identifier("a"), Identifier("c"), Number(1),
      Member(Identifier("msg"), "sender") }

IndexKeys == { Number(0), Identifier("p") }

RECURSIVE IndexExprs(_)
\* the index expressions of nesting depth d
IndexExprs(d) ==
    IF d = 0 THEN IndexBases
    ELSE { Index(b, k) : b \in IndexExprs(d - 1), k \in IndexKeys }

\* the statements that hold the index expression e
StatementsWith(e) ==
    { <<"Return", e>>,
      <<"Require", e>>,
      <<"Let", "y", e>>,
      <<"Let", "y", e, Bool>>,
      Assign(e, Number(1)),
      <<"Expression", e>>,
      <<"Return", Binary("Add", e, Number(1))>>,
      <<"While", e, << <<"ReturnNone">> >> >> }

TyperPrograms ==
    { decl \o << <<"Function", "f", << <<"p", pty>> >>, <<stmt>>, Uint256>> >> :
        decl \in { <<>>, << Const("a", Uint256) >>, << Const("a", Map) >> },
        pty  \in { Uint256, Map, Bool },
        stmt \in UNION { StatementsWith(e) :
                            e \in UNION { IndexExprs(d) : d \in 1..MaxIndexDepth } } }

InitTyper ==
    /\ phase = "source"
    /\ program \in TyperPrograms
    /\ module = [functions |-> <<>>, constructor_ops |-> <<>>, label_count |-> 0]
    /\ code = <<>>
    /\ calldata = <<>>
    /\ pc = 0
    /\ stack = <<>>
    /\ storage = EmptyMap
    /\ memory = EmptyMap
    /\ status = "idle"
    /\ executed = {}
    /\ stack0 = <<>>
    /\ storage0 = EmptyMap
    /\ passes = <<>>
    /\ guard_slot = -1
    /\ lexer = NewLexer
    /\ tokens = <<>>
    /\ storage_layout = EmptyLayout
    /\ verify_errors = <<>>
    /\ gas_report = NoReport
    /\ type_errors = <<>>

\* check_program(program)
CheckProgram ==
    /\ phase = "source"
    /\ phase' = "checked"
    /\ type_errors' = check_program(program)
    /\ passes' = Append(passes, "check_program")
    /\ UNCHANGED <<program, module, code, calldata, pc, stack, storage, memory, status,
                   executed, stack0, storage0, guard_slot, lexer, tokens, storage_layout,
                   verify_errors, gas_report>>

NextTyper == CheckProgram

SpecTyper == InitTyper /\ [][NextTyper]_vars

\* the function of the program and its statement
TypedFunction == program[Len(program)]

RECURSIVE IndexesIn(_)
\* the index expressions that occur in an expression built by IndexExprs
IndexesIn(e) ==
    CASE e[1] = "Index"  -> {e} \cup IndexesIn(e[2]) \cup IndexesIn(e[3])
      [] e[1] = "Binary" -> IndexesIn(e[3]) \cup IndexesIn(e[4])
      [] OTHER -> {}

\* the index expressions of the statement
IndexesOfStatement ==
    LET stmt == TypedFunction[4][1]
    IN  IndexesIn(stmt[IF stmt[1] = "Let" THEN 3 ELSE 2])

\* the type check_program infers for e where the statement stands
InferredType(e) == infer_expression(enter_function(program_ctx(program), TypedFunction), e).ty

(* C23: check_program reports IndexNonMapping for every index expression     *)
(* whose base has an inferred type other than Map, and gives the expression  *)
(* the type V, with no IndexNonMapping, when the base has type Map(K, V).    *)
C23_IndexNonMapping ==
    phase = "checked" =>
        \A e \in IndexesOfStatement :
            LET base == InferredType(e[2])
            IN  /\ (base # NoType /\ base[1] # "Map") =>
                      \E j \in 1..Len(type_errors) :
                          type_errors[j] = <<"IndexNonMapping", fmt_type(base)>>
                /\ base[1] = "Map" =>
                      /\ InferredType(e) = base[3]
                      /\ (\A b \in IndexesOfStatement : InferredType(b[2])[1] \in {"Map", "None"})
                            => \A j \in 1..Len(type_errors) :
                                  type_errors[j][1] # "IndexNonMapping"

\* what holds of the code: no IndexNonMapping is ever reported
C23_NeverReported ==
    phase = "checked" =>
        \A j \in 1..Len(type_errors) : type_errors[j][1] # "IndexNonMapping"

----------------------------------------------------------------------------
(* SpecExpression: an expression is lowered in a context, the ops are        *)
(* assembled and run from a stack of some depth.                             *)

\* most arguments of a call expression
MaxArgs == 2

\* a function with the parameter p and the local l, over a layout with the
\* value slot v and the mapping slot m
FunctionCtx ==
    alloc_local(
        [NewCtx(alloc(alloc(EmptyLayout, "v", "Value"), "m", "Mapping")) EXCEPT
            !.params = insert_params(<<Parameter("p")>>, 1, EmptyOffsets)],
        "l")

ExprContexts == { NewCtx(EmptyLayout), FunctionCtx }

Atoms ==
    { Number(1), <<"Bool", TRUE>>, <<"String", "s">>, <<"Bytes", <<>>>>, <<"Bytes", <<7>>>>,
      Identifier("p"), Identifier("l"), Identifier("v"), Identifier("m"), Identifier("q"),
      Member(Identifier("msg"), "sender"), Member(Identifier("msg"), "value"),
      Member(Identifier("q"), "f"),
      Index(Identifier("m"), Number(0)), Index(Identifier("q"), Number(0)),
      <<"StructInit", "S", <<>>>> }

Arguments == { Number(1), Identifier("p"), Identifier("q") }

RECURSIVE ArgLists(_)
ArgLists(n) ==
    IF n = 0 THEN {<<>>}
    ELSE { Append(l, a) : l \in ArgLists(n - 1), a \in Arguments }

Expressions ==
    Atoms
    \cup { Binary(op, a, b) : op \in {"Add", "Sub", "Equal", "Less"}, a \in Atoms, b \in Atoms }
    \cup { <<"Unary", op, a>> : op \in {"Not", "Minus"}, a \in Atoms }
    \cup { <<"Call", f, args>> :
              f \in {Identifier("q"), Identifier("p")},
              args \in UNION { ArgLists(n) : n \in 0..MaxArgs } }

InitExpression ==
    /\ phase = "source"
    /\ \E c \in ExprContexts, e \in Expressions : program = [ctx |-> c, expr |-> e]
    /\ stack0 \in {Rest(0), Rest(MaxRest)}
    /\ module = [functions |-> <<>>, constructor_ops |-> <<>>, label_count |-> 0]
    /\ code = <<>>
    /\ calldata = <<0, 0, 0, 0>> \o OneWord
    /\ pc = 0
    /\ stack = <<>>
    /\ storage = Store(EmptyMap, ZeroWord, NatToWord(5))
    /\ memory = Store(EmptyMap, NatToWord(128), NatToWord(6))
    /\ status = "idle"
    /\ executed = {}
    /\ storage0 = storage
    /\ passes = <<>>
    /\ guard_slot = -1
    /\ storage_layout = EmptyLayout
    /\ verify_errors = <<>>
    /\ gas_report = NoReport
    /\ type_errors = <<>>
    /\ lexer = NewLexer
    /\ tokens = <<>>

\* lower_expression(program.expr) in the context program.ctx
LowerExpressionIn ==
    /\ phase = "source"
    /\ phase' = "ops"
    /\ module' = [functions |-> << [name |-> "t", selector |-> <<0, 0, 0, 0>>,
                                   ops |-> lower_expression(program.ctx, program.expr),
                                   label |-> 0] >>,
                  constructor_ops |-> <<>>,
                  label_count |-> program.ctx.label_count]
    /\ passes' = Append(passes, "lower")
    /\ UNCHANGED <<program, code, calldata, pc, stack, storage, memory, status,
                   executed, stack0, storage0, guard_slot, lexer, tokens,
                   storage_layout, verify_errors, gas_report, type_errors>>

\* the lowered ops through Emitter::emit_op and into_bytes, then started on stack0
RunOps ==
    /\ phase = "ops"
    /\ phase' = "run"
    /\ code' = into_bytes(emit_ops(NewEmitter, module.functions[1].ops, 1))
    /\ pc' = 0
    /\ stack' = stack0
    /\ status' = "running"
    /\ passes' = Append(passes, "assemble")
    /\ UNCHANGED <<program, module, calldata, storage, memory, executed, stack0,
                   storage0, guard_slot, lexer, tokens, storage_layout, verify_errors,
                   gas_report, type_errors>>

NextExpression == LowerExpressionIn \/ RunOps \/ Step

SpecExpression == InitExpression /\ [][NextExpression]_vars

(* C25: the ops lowered from an expression, run from a stack of depth d, end *)
(* (unless they revert) with depth d + 1 and the d words below unchanged.    *)
C25_OneValuePushed ==
    (Halted /\ status \notin {"revert", "unmodelled"}) =>
        /\ status = "end"
        /\ Len(stack) = Len(stack0) + 1
        /\ Drop(stack, 1) = stack0

\* the expressions for which C25 fails: those that hold an identifier that is
\* no parameter, local or value slot, an index whose base has no layout
\* entry, or a call
RECURSIVE Irregular(_, _)
Irregular(ctx, e) ==
    CASE e[1] = "Identifier" ->
            /\ e[2] \notin DOMAIN ctx.params
            /\ e[2] \notin DOMAIN ctx.locals
            /\ ~(contains_key(ctx.layout, e[2]) /\ get(ctx.layout, e[2]).kind = "Value")
      [] e[1] = "Index" ->
            \/ ~(e[2][1] = "Identifier" /\ contains_key(ctx.layout, e[2][2]))
            \/ Irregular(ctx, e[3])
      [] e[1] = "Binary" -> Irregular(ctx, e[3]) \/ Irregular(ctx, e[4])
      [] e[1] = "Unary" -> Irregular(ctx, e[3])
      [] e[1] = "Call" -> TRUE
      [] OTHER -> FALSE

\* what holds of the code: the other expressions push exactly one word
C25_RegularOneValuePushed ==
    (Halted /\ status # "unmodelled" /\ ~Irregular(program.ctx, program.expr)) =>
        /\ status = "end"
        /\ Len(stack) = Len(stack0) + 1
        /\ Drop(stack, 1) = stack0

----------------------------------------------------------------------------
(* SpecBodies: the pipeline of SpecRuntime over programs whose bodies assign *)
(* and read back a name, return early from init, or hold long literals.      *)

\* the values assigned are 1..MaxValue
MaxValue == 2

\* the numeric and byte-string literals have up to MaxLiteralLen bytes
MaxLiteralLen == 33

\* x = v; return x
write_then_read(x, v) == << Assign(Identifier(x), Number(v)), <<"Return", Identifier(x)>> >>

\* def t(x: uint256): x = v; return x
\* def t(): let y = 0; y = v; return y
\* def t(): a = v; return a
\* def t(x: uint256): let x = 0; x = v; return x
ReadAfterWritePrograms ==
    UNION { { << Function("t", <<Parameter("x")>>, write_then_read("x", v)) >>,
              << Function("t", <<>>, << <<"Let", "y", Number(0)>> >> \o write_then_read("y", v)) >>,
              << Function("t", <<>>, write_then_read("a", v)) >>,
              << Function("t", <<Parameter("x")>>,
                          << <<"Let", "x", Number(0)>> >> \o write_then_read("x", v)) >> } :
            v \in 1..MaxValue }

\* def init(): if 1: return;  a = 2          def t(): return a
\* def init(): if a: return 1;  a = 2        def t(): return a
\* def init(): a = 2; return                 def t(): return a
\* def init(): a = 2                         def t(): return a
InitPrograms ==
    { << Function("init", <<>>, body),
         Function("t", <<>>, << <<"Return", Identifier("a")>> >>) >> :
        body \in { << <<"If", Number(1), << <<"ReturnNone">> >> >>,
                      Assign(Identifier("a"), Number(2)) >>,
                   << <<"If", Identifier("a"), << <<"Return", Number(1)>> >> >>,
                      Assign(Identifier("a"), Number(2)) >>,
                   << Assign(Identifier("a"), Number(2)), <<"ReturnNone">> >>,
                   << Assign(Identifier("a"), Number(2)) >> } }

\* def t(): return <literal>, the literal a number, a hex number or a byte
\* string of n bytes
LiteralPrograms ==
    { << Function("t", <<>>, << <<"Return", <<kind, Bytes(n, 1)>>>> >>) >> :
        kind \in {"Number", "HexNumber", "Bytes"}, n \in 1..MaxLiteralLen }
    \cup { << Function("t", <<>>, << <<"Return", e>> >>) >> :
              e \in { <<"Number", <<>>>>, <<"Bytes", <<>>>> } }

BodyPrograms == ReadAfterWritePrograms \cup InitPrograms \cup LiteralPrograms

InitBodies ==
    /\ phase = "source"
    /\ program \in BodyPrograms
    /\ module = [functions |-> <<>>, constructor_ops |-> <<>>, label_count |-> 0]
    /\ code = <<>>
    /\ calldata = <<>>
    /\ pc = 0
    /\ stack = <<>>
    /\ storage = EmptyMap
    /\ memory = EmptyMap
    /\ status = "idle"
    /\ executed = {}
    /\ stack0 = <<>>
    /\ storage0 = EmptyMap
    /\ passes = <<>>
    /\ guard_slot = -1
    /\ storage_layout = EmptyLayout
    /\ verify_errors = <<>>
    /\ gas_report = NoReport
    /\ type_errors = <<>>
    /\ lexer = NewLexer
    /\ tokens = <<>>

SpecBodies == InitBodies /\ [][NextRuntime]_vars

\* the constructor ops without a Return or Stop that is the last of them
WithoutTrailingHalt(ops) ==
    IF ops # <<>> /\ ops[Len(ops)].op \in {"Return", "Stop"}
    THEN SubSeq(ops, 1, Len(ops) - 1)
    ELSE ops

(* C24: the deploy bytecode holds every constructor op but a Return or Stop  *)
(* that is the last one; a Return or Stop before other constructor ops is    *)
(* emitted.                                                                  *)
C24_OnlyTrailingHaltStripped ==
    phase = "deploy" =>
        code = build_deploy(
                  into_bytes(emit_ops(NewEmitter,
                                      WithoutTrailingHalt(module.constructor_ops), 1)),
                  module_to_runtime(module)).out

\* what holds of the code: no Return or Stop of the constructor is emitted
C24_EveryHaltStripped ==
    phase = "deploy" =>
        code = build_deploy(
                  into_bytes(emit_ops(NewEmitter,
                        SelectSeq(module.constructor_ops,
                                  LAMBDA op : op.op # "Return" /\ op.op # "Stop"), 1)),
                  module_to_runtime(module)).out

\* the function t of the program and its body
FunctionT == program[Len(program)]

BodyT == FunctionT[4]

\* the body of t ends with x = v; return x
EndsWithReadAfterWrite ==
    /\ Len(BodyT) >= 2
    /\ BodyT[Len(BodyT) - 1][1] = "Assign"
    /\ BodyT[Len(BodyT) - 1][2][1] = "Identifier"
    /\ BodyT[Len(BodyT) - 1][3][1] = "Number"
    /\ BodyT[Len(BodyT)] = <<"Return", BodyT[Len(BodyT) - 1][2]>>

WrittenName == BodyT[Len(BodyT) - 1][2][2]

WrittenValue == PadLeft(BodyT[Len(BodyT) - 1][3][2])

\* the call has reached the Return of t
ReturnedFromT ==
    /\ Halted
    /\ status = "return"
    /\ FirstMatch # 0
    /\ module.functions[FirstMatch].name = "t"

\* the word the call returns: 32 bytes of memory at offset 64
ReturnedWord == Load(memory, NatToWord(64))

(* C26: where t ends with x = v; return x and x is a parameter, a let-bound  *)
(* local or a value state variable, a call of t returns v.                   *)
C26_ReadAfterWrite ==
    (ReturnedFromT /\ EndsWithReadAfterWrite) => ReturnedWord = WrittenValue

\* what holds of the code: the same when x is not a parameter
C26_ReadAfterWriteNonParameter ==
    (/\ ReturnedFromT
     /\ EndsWithReadAfterWrite
     /\ \A i \in 1..Len(FunctionT[3]) : FunctionT[3][i][1] # WrittenName)
        => ReturnedWord = WrittenValue

(* C30: every Push op of a lowered module carries 1 to 32 data bytes.        *)
C30_PushDataLength ==
    phase # "source" =>
        \A ik \in AllPositions("Push") :
            LET data == OpLists[ik[1]][ik[2]].data
            IN  Len(data) >= 1 /\ Len(data) <= 32

\* what holds of the code: no Push is empty
C30_PushDataNonEmpty ==
    phase # "source" =>
        \A ik \in AllPositions("Push") : Len(OpLists[ik[1]][ik[2]].data) >= 1

====
